---- MODULE Spec2Model ----
(***************************************************************************)
(* Streaming distribution layer of StreamXBot:                             *)
(*   - the connection pool of src/stream/__init__.py (work_loads,          *)
(*     _rr_cursor, acquire / acquire_prefer / release / stop),             *)
(*   - the per-resource hub _StreamHub of src/Api/services/                *)
(*     stream_service.py (producer task _run, eviction _gc_locked,         *)
(*     consumers' iter_bytes), the hub registry, and _stream_file_id with  *)
(*     its fallback _direct_stream.                                        *)
(*                                                                         *)
(* Scheduling is asyncio's: a coroutine runs without interleaving from one *)
(* real suspension to the next.  No lock of this code is held across a     *)
(* suspension (every `async with` body is free of awaits other than        *)
(* Condition.wait, which releases the lock), so entering a lock never      *)
(* suspends and every action below is one such uninterrupted stretch.      *)
(* The suspension points are: the upstream awaits (get_messages, each      *)
(* stream_media chunk), Condition.wait, each `yield` to the caller, and    *)
(* the first step of a newly created task.                                 *)
(*                                                                         *)
(* Bytes are modelled by their position in the resource, so a byte that is *)
(* repeated, skipped or out of order is visible in what a consumer got.    *)
(***************************************************************************)
EXTENDS Integers, Sequences, FiniteSets, TLC

\* ---------------------------------------------------------------- bounds

\* handles 1..NumHandles can be registered in the pool
NumHandles == 3
\* acquire is not taken once the chosen handle's load is MaxLoad (pool spec)
MaxLoad == 3
\* size of the resource in bytes
FileLen == 3
\* the upstream delivers chunks of 1..MaxChunk bytes (and empty ones)
MaxChunk == 2
\* the producer appends no chunk that takes total_written past MaxWritten
MaxWritten == 7
\* producer tasks created for the hub object: as many fetches of the whole
\* resource as it takes to bring total_written to MaxWritten
MaxFetch == (MaxWritten + FileLen - 1) \div FileLen
\* a request starts at a byte offset in 0..MaxStart
MaxStart == 1
\* observed byte ranges have their ends in 0..MaxSmall, or at the marks below
MaxSmall == 2
\* the clock runs from 0 to MaxTime ticks
MaxTime == 2
\* _PLAY_PROGRESS_TTL_SEC, in ticks (1800.0 s in the source)
PLAY_PROGRESS_TTL == 1
\* _PLAY_PROGRESS_MAX, scaled down (5000 in the source)
PLAY_PROGRESS_MAX == 1

\* _CHUNK_SIZE, scaled: the size of the chunks stream_media delivers
CHUNK_SIZE == 2

\* _PLAY_PROGRESS_UPDATE_EVERY_BYTES, scaled
PLAY_PROGRESS_UPDATE_EVERY_BYTES == 2

\* _TRACK_AFFINITY_TTL_SEC, in ticks
TRACK_AFFINITY_TTL_SEC == 1

\* _PLAY_COUNT_THRESHOLD_SEC
PLAY_COUNT_THRESHOLD_SEC == 30

\* _register_play tasks the model follows
MaxCalls == 3
\* played_bucket, int(now // _PLAY_PROGRESS_TTL_SEC), is in 0..MaxBucket
MaxBucket == 1

\* the buffer cap _MAX_STREAM_BUFFER_BYTES, scaled down with the resource
\* (25_000_000 in the source, where a chunk is 1 MiB: the cap is not a
\* multiple of the chunk size, and here a chunk can be shorter than the cap)
MAX_STREAM_BUFFER_BYTES == 2

\* ---------------------------------------------------------------- helpers

MinOf(S) == CHOOSE x \in S : \A y \in S : x <= y

\* the resource: byte i (0-based) has value i
File == [i \in 1..FileLen |-> i - 1]

\* bytes [from, to) of the resource (0-based, clipped)
FileBytes(from, to) == SubSeq(File, from + 1, IF to > FileLen THEN FileLen ELSE to)

HandleIds == 1..NumHandles

\* the requests (_stream_file_id calls) followed: two concurrent ones,
\* numbered in the order they arrive
Consumers == {1, 2}

\* client_id = 0 in _run before acquire returns; also "no primary" (None)
NoClient == 0

VARIABLES
  \* ---- connection pool (src/stream/__init__.py)
  work_loads,       \* dict handle id -> in-flight count; its keys are the registered handles
  rr_cursor,        \* _rr_cursor
  primary_user_id,  \* _primary_user_id (NoClient for None)
  MULTI_CLIENTS,    \* Config.MULTI_CLIENTS
  pool_call,        \* history: the last call made on the pool by a free caller
                    \* (specification SpecPool): [op, arg, ok, cid, path]
  \* ---- hub registry and the hub object (stream_service.py)
  STREAM_HUBS,      \* _STREAM_HUBS: the keys registered (one resource identity)
  hubs_closed,      \* close_stream_hubs has run
  chunks,           \* _StreamHub._chunks: sequence of [off, data]
  total_written,    \* _StreamHub._total_written
  done,             \* _StreamHub._done
  error,            \* _StreamHub._error
  producer,         \* _StreamHub._producer: "None" or "Task"
  consumers,        \* _StreamHub._consumers: cid -> next offset
  lagged,           \* _StreamHub._lagged
  \* ---- the producer task last created for the hub
  task_pc,          \* "none" | "new" | "stream" | "exited"
  task_client,      \* client_id of _run
  task_pos,         \* bytes of the resource received from stream_media so far
  task_cancel,      \* Task.cancel() was called and not yet delivered
  \* ---- requests: _stream_file_id generators
  req_pc,           \* "idle" | "attach" | "hub" | "eof" | "error" | "direct" | "direct_eof" |
                    \* "fail" | "stopped"
  req_start,        \* start_byte
  sent,             \* local `sent` of _stream_file_id
  got,              \* history: every byte yielded to the caller, in order
  direct_client,    \* client_user_id of the fallback _direct_stream
  direct_pos,       \* bytes the fallback's stream_media has delivered
  remaining_skip,   \* _direct_stream.remaining_skip
  \* ---- history of the hub
  emitted,          \* every byte the producer appended, in order
  fetch_starts,     \* producer tasks created for the hub
  done_sets,        \* executions of `self._done = True`
  gc_forced         \* the last _gc_locked run found buffer_bytes over the cap
                    \* (its forced step ran)

poolVars == <<work_loads, rr_cursor, primary_user_id, MULTI_CLIENTS, pool_call>>

hubVars == <<STREAM_HUBS, hubs_closed, chunks, total_written, done, error, producer,
             consumers, lagged>>

taskVars == <<task_pc, task_client, task_pos, task_cancel>>

reqVars == <<req_pc, req_start, sent, got, direct_client, direct_pos, remaining_skip>>

histVars == <<emitted, fetch_starts, done_sets, gc_forced>>

VARIABLES
  \* ---- play-progress table (stream_service.py)
  PLAY_PROGRESS,    \* _PLAY_PROGRESS: the entries, in insertion order
  track_meta,       \* the track document's file_size, duration_sec, bitrate_kbps,
                    \* which stream_track hands to the wrapper and so to observe
  now,              \* time.monotonic(), in ticks
  play_call,        \* history: the last _update_play_progress call:
                    \* [key, hit, was_counted]
  observed,         \* history: key -> the bytes of the ranges merged into the key's
                    \* entry, as a set of segments between offsets (RangeSegments)
  fires             \* history: key -> True returns since the entry was created

playVars == <<PLAY_PROGRESS, track_meta, now, play_call, observed, fires>>

VARIABLES
  \* ---- stream_track requests (stream_service.py)
  trk,              \* request -> its position, its response and the locals of
                    \* its body iterator and of the play-count wrapper; history:
                    \* `reported`, the ranges its wrapper handed to observe
  TRACK_AFFINITY,   \* _TRACK_AFFINITY[track_id]: <<>> or <<cid, ts>>
  file_ids,         \* telegram.file_ids of the track document: the handles
                    \* that have a cached identifier
  plays             \* history: _register_play tasks created

VARIABLES
  \* ---- _register_play tasks and the two collections they write
  play_reg,         \* call -> the position of one _register_play task, its
                    \* user_id and played_bucket, and what became of it
  user_plays,       \* db.userplayback: the _id keys of its documents
  global_plays      \* db.globalplayback: the plays counter of the track

regVars == <<play_reg, user_plays, global_plays>>

VARIABLES
  \* ---- close_stream_hubs over a registry of several hubs (stream_service.py)
  hubs_registry,    \* _STREAM_HUBS: the keys registered, in insertion order
  hub_producer,     \* key -> the hub's _producer and the state of the task it
                    \* last created: [ref, pc, cancel]
  close_call        \* the close_stream_hubs coroutine: its position, its local
                    \* list `hubs`, the keys it took from the registry and
                    \* the exception that left it

closeVars == <<hubs_registry, hub_producer, close_call>>

trackVars == <<trk, TRACK_AFFINITY, file_ids, plays, regVars>>

\* what the hub and the pool operations leave alone
extVars == <<playVars, trackVars, closeVars>>

vars == <<poolVars, hubVars, taskVars, reqVars, histVars, playVars, trackVars,
          closeVars>>

\* ================================================================ pool

\* work_loads.get(c) or 0
Load(loads, c) == IF c \in DOMAIN loads THEN loads[c] ELSE 0

\* candidates with the primary never set aside
CandidatesAll(loads) == DOMAIN loads

\* candidates of acquire_stream_client: every registered handle, without the
\* primary when multi-client mode is on and another handle is registered
Candidates(loads) ==
  LET keys == DOMAIN loads
      rest == keys \ {primary_user_id}
  IN IF MULTI_CLIENTS /\ Cardinality(keys) > 1 /\ primary_user_id # NoClient
     THEN (IF rest # {} THEN rest ELSE keys)
     ELSE keys

\* tied[(tied.index(_rr_cursor) + 1) % len(tied)] over the sorted list tied
NextInTied(tied, rr) ==
  IF \E y \in tied : y > rr THEN MinOf({y \in tied : y > rr}) ELSE MinOf(tied)

\* the lowest id among the candidates, whatever their loads
PickClientLowestId(loads, candidates, rr) == MinOf(candidates)

\* least load, round-robin among the tied; the source's `else` branch
\* (tied empty) cannot be taken: min_load is the load of a candidate
PickClient(loads, candidates, rr) ==
  LET min_load == MinOf({Load(loads, c) : c \in candidates})
      tied == {c \in candidates : Load(loads, c) = min_load}
  IN IF rr \in tied THEN NextInTied(tied, rr) ELSE MinOf(tied)

\* the bookkeeping with the chosen handle's load overwritten by 1
AcquireFromSetOne(loads, candidates, rr) ==
  IF candidates = {}
  THEN [ok |-> FALSE, cid |-> NoClient, loads |-> loads, rr |-> rr]
  ELSE LET cid == PickClient(loads, candidates, rr)
       IN [ok |-> TRUE, cid |-> cid, loads |-> [loads EXCEPT ![cid] = 1], rr |-> cid]

\* the selection and bookkeeping shared by both acquire functions
AcquireFrom(loads, candidates, rr) ==
  IF candidates = {}
  THEN [ok |-> FALSE, cid |-> NoClient, loads |-> loads, rr |-> rr]
  ELSE LET cid == PickClient(loads, candidates, rr)
       IN [ok |-> TRUE, cid |-> cid,
           loads |-> [loads EXCEPT ![cid] = Load(loads, cid) + 1],
           rr |-> cid]

\* acquire_stream_client; an empty pool (bot None / ONLY_API) raises
AcquireStreamClient(loads, rr) == AcquireFrom(loads, Candidates(loads), rr)

\* acquire_stream_client_prefer with the preference dropped
AcquireStreamClientPreferIgnored(loads, rr, preferred) ==
  AcquireFrom(loads, Candidates(loads), rr)

\* acquire_stream_client_prefer
AcquireStreamClientPrefer(loads, rr, preferred) ==
  LET cands == Candidates(loads)
      picked == cands \cap preferred
  IN AcquireFrom(loads, IF picked # {} THEN picked ELSE cands, rr)

\* release without the floor
ReleaseLoadsNoFloor(loads, client_id) ==
  IF client_id \notin DOMAIN loads THEN loads
  ELSE [loads EXCEPT ![client_id] = loads[client_id] - 1]

\* release_stream_client: the new work_loads
ReleaseLoads(loads, client_id) ==
  IF client_id \notin DOMAIN loads THEN loads
  ELSE LET v == loads[client_id] - 1
       IN [loads EXCEPT ![client_id] = IF v > 0 THEN v ELSE 0]

\* which path release_stream_client takes
ReleasePath(loads, client_id) ==
  IF client_id \notin DOMAIN loads THEN "unknown"
  ELSE IF loads[client_id] - 1 >= 0 THEN "dec" ELSE "floor"

NoCall == [op |-> "none", arg |-> {}, ok |-> TRUE, cid |-> NoClient, path |-> "none"]

\* ---- the pool's operations, called freely (specification SpecPool)

PoolAcquire ==
  LET r == AcquireStreamClient(work_loads, rr_cursor)
  IN /\ r.ok => work_loads[r.cid] < MaxLoad
     /\ work_loads' = r.loads
     /\ rr_cursor' = r.rr
     /\ pool_call' = [op |-> "acquire", arg |-> {}, ok |-> r.ok, cid |-> r.cid,
                      path |-> "none"]
     /\ UNCHANGED <<primary_user_id, MULTI_CLIENTS>>

PoolAcquirePrefer ==
  \E preferred \in SUBSET HandleIds :
    LET r == AcquireStreamClientPrefer(work_loads, rr_cursor, preferred)
    IN /\ r.ok => work_loads[r.cid] < MaxLoad
       /\ work_loads' = r.loads
       /\ rr_cursor' = r.rr
       /\ pool_call' = [op |-> "prefer", arg |-> preferred, ok |-> r.ok, cid |-> r.cid,
                        path |-> "none"]
       /\ UNCHANGED <<primary_user_id, MULTI_CLIENTS>>

PoolRelease ==
  \E client_id \in HandleIds \cup DOMAIN work_loads \cup {NoClient} :
    /\ work_loads' = ReleaseLoads(work_loads, client_id)
    /\ pool_call' = [op |-> "release", arg |-> {client_id}, ok |-> TRUE,
                     cid |-> client_id, path |-> ReleasePath(work_loads, client_id)]
    /\ UNCHANGED <<rr_cursor, primary_user_id, MULTI_CLIENTS>>

\* the handles picked so far in the current run of round trips: a run starts
\* after any other call and after each full round of the candidates
RoundPicks(call, m) ==
  IF call.op = "round" /\ Cardinality(call.arg) < m THEN call.arg ELSE {}

\* acquire_stream_client followed by release_stream_client of the handle it
\* returned, with no other call in between
PoolRoundTrip ==
  LET r == AcquireStreamClient(work_loads, rr_cursor)
      m == Cardinality(Candidates(work_loads))
  IN /\ r.ok
     /\ work_loads' = ReleaseLoads(r.loads, r.cid)
     /\ rr_cursor' = r.rr
     /\ pool_call' = [op |-> "round", arg |-> RoundPicks(pool_call, m) \cup {r.cid},
                      ok |-> TRUE, cid |-> r.cid, path |-> "dec"]
     /\ UNCHANGED <<primary_user_id, MULTI_CLIENTS>>

\* stop_multi_clients: only the primary stays registered, with load 0
StopMultiClients ==
  /\ work_loads' = IF primary_user_id # NoClient
                   THEN [h \in {primary_user_id} |-> 0]
                   ELSE [h \in {} |-> 0]
  /\ pool_call' = [op |-> "stop", arg |-> {}, ok |-> TRUE, cid |-> NoClient,
                   path |-> "none"]
  /\ UNCHANGED <<rr_cursor, primary_user_id, MULTI_CLIENTS>>

\* the pool after initialize_multi_clients: the primary (unless get_me
\* failed) and, in multi-client mode, any of the other handles
PoolInit ==
  /\ MULTI_CLIENTS \in BOOLEAN
  /\ primary_user_id \in {NoClient, 1}
  /\ \E extra \in SUBSET (HandleIds \ {1}) :
        /\ ~MULTI_CLIENTS => extra = {}
        /\ work_loads = [h \in extra \cup (IF primary_user_id = 1 THEN {1} ELSE {}) |-> 0]
  /\ rr_cursor = 0
  /\ pool_call = NoCall

\* ================================================================ hub

ChunkEnd(ch) == ch.off + Len(ch.data)

\* _StreamHub._buffer_start
BufferStartOf(chs, total) == IF chs = <<>> THEN total ELSE chs[1].off

BufferStart == BufferStartOf(chunks, total_written)

\* the same loop comparing the chunk's start, not its end, with the limit
RECURSIVE DropLeadingByStart(_, _)
DropLeadingByStart(chs, limit) ==
  IF chs = <<>> THEN <<>>
  ELSE IF Head(chs).off <= limit THEN DropLeadingByStart(Tail(chs), limit)
  ELSE chs

\* `while self._chunks: ... if end <= limit: popleft; continue; break`
RECURSIVE DropLeading(_, _)
DropLeading(chs, limit) ==
  IF chs = <<>> THEN <<>>
  ELSE IF ChunkEnd(Head(chs)) <= limit THEN DropLeading(Tail(chs), limit)
  ELSE chs

\* the variant whose minimum without consumers is 0: nothing is dropped
MinOffsetKeepsAll(cons, total) ==
  IF DOMAIN cons = {} THEN 0 ELSE MinOf({cons[c] : c \in DOMAIN cons})

\* min(self._consumers.values(), default=self._total_written)
MinOffset(cons, total) ==
  IF DOMAIN cons = {} THEN total ELSE MinOf({cons[c] : c \in DOMAIN cons})

\* the append of _run with the offset taken after total_written was advanced
AppendChunkAfterIncrement(chs, total, chunk) ==
  Append(chs, [off |-> total + Len(chunk), data |-> chunk])

\* the append of _run: start = total_written; chunks.append((start, chunk))
AppendChunk(chs, total, chunk) == Append(chs, [off |-> total, data |-> chunk])

\* _gc_locked without its forced step
GcLockedNoForce(chs, total, cons, lag) ==
  LET min_offset == MinOffset(cons, total)
      c1 == DropLeading(chs, min_offset)
  IN [chunks |-> c1, lagged |-> lag,
      run |-> total - BufferStartOf(c1, total) > MAX_STREAM_BUFFER_BYTES]

\* _gc_locked without its last loop: the forced step marks no consumer
GcLockedNoLagged(chs, total, cons, lag) ==
  LET min_offset == MinOffset(cons, total)
      c1 == DropLeading(chs, min_offset)
      buffer_bytes == total - BufferStartOf(c1, total)
      c2 == DropLeading(c1, total - MAX_STREAM_BUFFER_BYTES)
      run == buffer_bytes > MAX_STREAM_BUFFER_BYTES
  IN [chunks |-> IF run THEN c2 ELSE c1, lagged |-> lag, run |-> run]

\* _StreamHub._gc_locked: the new chunks and lagged set, and what the run saw
GcLocked(chs, total, cons, lag) ==
  LET min_offset == MinOffset(cons, total)
      c1 == DropLeading(chs, min_offset)
      buffer_start == BufferStartOf(c1, total)
      buffer_bytes == total - buffer_start
      keep_from == total - MAX_STREAM_BUFFER_BYTES
      c2 == DropLeading(c1, keep_from)
      new_start == BufferStartOf(c2, total)
      run == buffer_bytes > MAX_STREAM_BUFFER_BYTES
  IN IF buffer_bytes <= MAX_STREAM_BUFFER_BYTES
     THEN [chunks |-> c1, lagged |-> lag, run |-> run]
     ELSE [chunks |-> c2,
           lagged |-> IF new_start <= buffer_start THEN lag
                      ELSE lag \cup {cid \in DOMAIN cons : cons[cid] < new_start},
           run |-> run]

\* the chunk lookup of iter_bytes: the index of the chunk holding `offset`
\* (the first chunk that ends after it, if it starts at or before it), else 0
FindChunk(chs, offset) ==
  LET after == {i \in 1..Len(chs) : ChunkEnd(chs[i]) > offset}
  IN IF after = {} THEN 0
     ELSE LET i == MinOf(after)
          IN IF chs[i].off > offset THEN 0 ELSE i

\* the whole chunk, whatever the cursor's place in it
SliceWhole(data, rel) == data

\* data[rel:] if rel > 0 else data
SliceFrom(data, rel) == IF rel > 0 THEN SubSeq(data, rel + 1, Len(data)) ELSE data

\* the loop of iter_bytes with the end-of-stream test ahead of the error test
IterOutcomeEofFirst(cid) ==
  IF cid \in lagged THEN "behind"
  ELSE LET offset == consumers[cid]
       IN IF done /\ offset >= total_written THEN "eof"
          ELSE IF error # "None" THEN "error"
          ELSE IF offset < BufferStart /\ total_written > 0 THEN "behind"
          ELSE IF FindChunk(chunks, offset) = 0 THEN "wait"
          ELSE "data"

\* the loop of iter_bytes without its test of the cursor against the start
\* of the buffer: only the lagged set tells a consumer it is behind
IterOutcomeLaggedOnly(cid) ==
  IF cid \in lagged THEN "behind"
  ELSE IF error # "None" THEN "error"
  ELSE LET offset == consumers[cid]
       IN IF done /\ offset >= total_written THEN "eof"
          ELSE IF FindChunk(chunks, offset) = 0 THEN "wait"
          ELSE "data"

\* one pass of the loop of iter_bytes for consumer cid: what it ends in
IterOutcome(cid) ==
  IF cid \in lagged THEN "behind"
  ELSE IF error # "None" THEN "error"
  ELSE LET offset == consumers[cid]
       IN IF offset < BufferStart /\ total_written > 0 THEN "behind"
          ELSE IF done /\ offset >= total_written THEN "eof"
          ELSE IF FindChunk(chunks, offset) = 0 THEN "wait"
          ELSE "data"

\* _StreamHub.start: a task is created when there is none or the last one is done
Start ==
  IF producer = "None" \/ task_pc = "exited"
  THEN /\ fetch_starts < MaxFetch
       /\ producer' = "Task"
       /\ task_pc' = "new"
       /\ task_client' = NoClient
       /\ task_pos' = 0
       /\ task_cancel' = FALSE
       /\ fetch_starts' = fetch_starts + 1
  ELSE UNCHANGED <<producer, taskVars, fetch_starts>>

\* no consumer is between its registration and the first pass of its loop.
\* iter_bytes registers the consumer and enters its loop without a suspension
\* in between (nothing holds the condition's lock across a suspension), so
\* no other coroutine runs until that first pass has yielded, waited or left
NoAttachPending == \A d \in Consumers : req_pc[d] # "attach"

\* consumer c is inside iter_bytes and it is its turn to run
InHub(c) ==
  /\ req_pc[c] \in {"attach", "hub"}
  /\ \A d \in Consumers : req_pc[d] = "attach" => d = c

\* _get_or_create_hub.  One hub object is followed from its creation to its
\* disposal: no request arrives after close_stream_hubs (process shutdown).
GetOrCreateHub ==
  /\ NoAttachPending
  /\ ~hubs_closed
  /\ STREAM_HUBS' = {"key"}
  /\ Start

\* warm_track_cached: creates / starts the hub and reads nothing
WarmTrack ==
  /\ GetOrCreateHub
  /\ UNCHANGED <<poolVars, hubs_closed, chunks, total_written, done, error,
                 consumers, lagged, reqVars, emitted, done_sets, gc_forced>>

\* _stream_file_id up to the loop of iter_bytes: the hub is fetched or
\* created, started, and the consumer registered at start_byte; the first
\* pass of the loop follows at once
StreamFileIdBegin(c) ==
  \E start_byte \in 0..MaxStart :
    /\ req_pc[c] = "idle"
    /\ \A d \in Consumers : d < c => req_pc[d] # "idle"
    /\ GetOrCreateHub
    /\ consumers' = [d \in DOMAIN consumers \cup {c} |->
                       IF d = c THEN start_byte ELSE consumers[d]]
    /\ req_pc' = [req_pc EXCEPT ![c] = "attach"]
    /\ req_start' = [req_start EXCEPT ![c] = start_byte]
    /\ sent' = [sent EXCEPT ![c] = start_byte]
    /\ UNCHANGED <<poolVars, hubs_closed, chunks, total_written, done, error, lagged,
                   got, direct_client, direct_pos, remaining_skip,
                   emitted, done_sets, gc_forced>>

\* the `finally` of iter_bytes without its eviction run
LeaveNoGc(c) ==
  /\ consumers' = [d \in DOMAIN consumers \ {c} |-> consumers[d]]
  /\ lagged' = lagged \ {c}
  /\ UNCHANGED <<chunks, gc_forced>>

\* the `finally` of iter_bytes: deregister, then evict
Leave(c) ==
  LET cons2 == [d \in DOMAIN consumers \ {c} |-> consumers[d]]
      g == GcLocked(chunks, total_written, cons2, lagged \ {c})
  IN /\ consumers' = cons2
     /\ chunks' = g.chunks
     /\ lagged' = g.lagged
     /\ gc_forced' = g.run

\* iter_bytes finds the chunk at the cursor, advances the cursor, evicts and yields
HubYield(c) ==
  /\ InHub(c)
  /\ IterOutcome(c) = "data"
  /\ LET offset == consumers[c]
         ch == chunks[FindChunk(chunks, offset)]
         out == SliceFrom(ch.data, offset - ch.off)
         cons2 == [consumers EXCEPT ![c] = offset + Len(out)]
         g == GcLocked(chunks, total_written, cons2, lagged)
     IN /\ consumers' = cons2
        /\ chunks' = g.chunks
        /\ lagged' = g.lagged
        /\ gc_forced' = g.run
        /\ got' = [got EXCEPT ![c] = @ \o out]
        /\ sent' = [sent EXCEPT ![c] = @ + Len(out)]
  /\ req_pc' = [req_pc EXCEPT ![c] = "hub"]
  /\ UNCHANGED <<poolVars, STREAM_HUBS, hubs_closed, total_written, done, error, producer,
                 taskVars, req_start, direct_client, direct_pos, remaining_skip,
                 emitted, fetch_starts, done_sets>>

\* the first pass of the loop finds no chunk at the cursor and suspends in
\* Condition.wait
HubWait(c) ==
  /\ req_pc[c] = "attach"
  /\ IterOutcome(c) = "wait"
  /\ req_pc' = [req_pc EXCEPT ![c] = "hub"]
  /\ UNCHANGED <<poolVars, hubVars, taskVars, req_start, sent, got, direct_client,
                 direct_pos, remaining_skip, histVars>>

\* iter_bytes returns: done and the cursor at or past total_written
HubEof(c) ==
  /\ InHub(c)
  /\ IterOutcome(c) = "eof"
  /\ Leave(c)
  /\ req_pc' = [req_pc EXCEPT ![c] = "eof"]
  /\ UNCHANGED <<poolVars, STREAM_HUBS, hubs_closed, total_written, done, error, producer,
                 taskVars, req_start, sent, got, direct_client, direct_pos, remaining_skip,
                 emitted, fetch_starts, done_sets>>

\* iter_bytes raises the producer's error, which _stream_file_id lets through
HubError(c) ==
  /\ InHub(c)
  /\ IterOutcome(c) = "error"
  /\ Leave(c)
  /\ req_pc' = [req_pc EXCEPT ![c] = "error"]
  /\ UNCHANGED <<poolVars, STREAM_HUBS, hubs_closed, total_written, done, error, producer,
                 taskVars, req_start, sent, got, direct_client, direct_pos, remaining_skip,
                 emitted, fetch_starts, done_sets>>

\* iter_bytes raises _StreamBehindError; _stream_file_id acquires a client
\* for _direct_stream(start_byte = sent), or fails if the pool has none
HubBehind(c) ==
  /\ InHub(c)
  /\ IterOutcome(c) = "behind"
  /\ Leave(c)
  /\ LET r == AcquireStreamClient(work_loads, rr_cursor)
     IN /\ work_loads' = r.loads
        /\ rr_cursor' = r.rr
        /\ req_pc' = [req_pc EXCEPT ![c] = IF r.ok THEN "direct" ELSE "fail"]
        /\ direct_client' = [direct_client EXCEPT ![c] = r.cid]
        /\ remaining_skip' = [remaining_skip EXCEPT ![c] = IF r.ok THEN sent[c] ELSE @]
  /\ UNCHANGED <<primary_user_id, MULTI_CLIENTS, pool_call,
                 STREAM_HUBS, hubs_closed, total_written, done, error, producer,
                 taskVars, req_start, sent, got, direct_pos,
                 emitted, fetch_starts, done_sets>>

\* the caller stops (aclose, or the request is cancelled) while the consumer
\* is suspended at a yield or in Condition.wait: only the `finally` runs
HubStop(c) ==
  /\ req_pc[c] = "hub"
  /\ NoAttachPending
  /\ Leave(c)
  /\ req_pc' = [req_pc EXCEPT ![c] = "stopped"]
  /\ UNCHANGED <<poolVars, STREAM_HUBS, hubs_closed, total_written, done, error, producer,
                 taskVars, req_start, sent, got, direct_client, direct_pos, remaining_skip,
                 emitted, fetch_starts, done_sets>>

\* ---------------------------------------------------------------- _direct_stream

\* the `finally` of _direct_stream
DirectRelease(c) ==
  /\ work_loads' = ReleaseLoads(work_loads, direct_client[c])
  /\ UNCHANGED <<rr_cursor, primary_user_id, MULTI_CLIENTS, pool_call>>

\* one chunk of the fallback's stream_media: skipped, cut or yielded whole
DirectChunk(c) ==
  \E n \in 0..MaxChunk :
    /\ NoAttachPending
    /\ req_pc[c] = "direct"
    /\ direct_pos[c] + n <= FileLen
    /\ LET chunk == FileBytes(direct_pos[c], direct_pos[c] + n)
           skip == remaining_skip[c]
       IN /\ direct_pos' = [direct_pos EXCEPT ![c] = @ + n]
          /\ IF n = 0 THEN UNCHANGED <<remaining_skip, got>>
             ELSE IF skip > 0 /\ n <= skip
             THEN /\ remaining_skip' = [remaining_skip EXCEPT ![c] = skip - n]
                  /\ UNCHANGED got
             ELSE /\ remaining_skip' = [remaining_skip EXCEPT ![c] = 0]
                  /\ got' = [got EXCEPT ![c] = @ \o SliceFrom(chunk, skip)]
    /\ UNCHANGED <<poolVars, hubVars, taskVars, req_pc, req_start, sent, direct_client,
                   histVars>>

\* the fallback's upstream is exhausted
DirectEof(c) ==
  /\ NoAttachPending
  /\ req_pc[c] = "direct"
  /\ direct_pos[c] = FileLen
  /\ DirectRelease(c)
  /\ req_pc' = [req_pc EXCEPT ![c] = "direct_eof"]
  /\ UNCHANGED <<hubVars, taskVars, req_start, sent, got, direct_client, direct_pos,
                 remaining_skip, histVars>>

\* the fallback's upstream raises
DirectFail(c) ==
  /\ NoAttachPending
  /\ req_pc[c] = "direct"
  /\ DirectRelease(c)
  /\ req_pc' = [req_pc EXCEPT ![c] = "fail"]
  /\ UNCHANGED <<hubVars, taskVars, req_start, sent, got, direct_client, direct_pos,
                 remaining_skip, histVars>>

\* the caller stops during the fallback
DirectStop(c) ==
  /\ NoAttachPending
  /\ req_pc[c] = "direct"
  /\ DirectRelease(c)
  /\ req_pc' = [req_pc EXCEPT ![c] = "stopped"]
  /\ UNCHANGED <<hubVars, taskVars, req_start, sent, got, direct_client, direct_pos,
                 remaining_skip, histVars>>

\* ---------------------------------------------------------------- _StreamHub._run

\* the `finally` of _run without its release
RunFinallyNoRelease ==
  /\ done' = TRUE
  /\ done_sets' = done_sets + 1
  /\ task_pc' = "exited"
  /\ UNCHANGED poolVars

\* the `finally` of _run: release the client, then set done
RunFinally ==
  /\ work_loads' = ReleaseLoads(work_loads, task_client)
  /\ done' = TRUE
  /\ done_sets' = done_sets + 1
  /\ task_pc' = "exited"
  /\ UNCHANGED <<rr_cursor, primary_user_id, MULTI_CLIENTS, pool_call>>

\* first step of the task: acquire_stream_client.  When it raises, the error
\* is recorded and the `finally` releases client_id 0
ProducerAcquire ==
  /\ NoAttachPending
  /\ task_pc = "new"
  /\ ~task_cancel
  /\ LET r == AcquireStreamClient(work_loads, rr_cursor)
     IN IF r.ok
        THEN /\ work_loads' = r.loads
             /\ rr_cursor' = r.rr
             /\ task_client' = r.cid
             /\ task_pc' = "stream"
             /\ UNCHANGED <<primary_user_id, MULTI_CLIENTS, pool_call, done, error,
                            done_sets>>
        ELSE /\ error' = "RuntimeError"
             /\ RunFinally
             /\ UNCHANGED task_client
  /\ UNCHANGED <<STREAM_HUBS, hubs_closed, chunks, total_written, producer, consumers,
                 lagged, task_pos, task_cancel, reqVars, emitted, fetch_starts, gc_forced>>

\* the variant in which the producer waits for room under the cap
ProducerWaitsForRoom(total, cons) ==
  total - MinOffset(cons, total) < MAX_STREAM_BUFFER_BYTES

\* what _run waits for before it appends a chunk: the lock of the condition
\* only, which no coroutine holds across a suspension; no cursor, no buffer
\* size, no consumer
ProducerMayAppend(total, cons) == TRUE

\* one chunk of stream_media: appended at total_written, then eviction;
\* an empty chunk is skipped
ProducerChunk ==
  \E n \in 0..MaxChunk :
    /\ NoAttachPending
    /\ task_pc = "stream"
    /\ ~task_cancel
    /\ task_pos + n <= FileLen
    /\ total_written + n <= MaxWritten
    /\ ProducerMayAppend(total_written, consumers)
    /\ IF n = 0
       THEN UNCHANGED <<chunks, total_written, lagged, task_pos, emitted, gc_forced>>
       ELSE LET chunk == FileBytes(task_pos, task_pos + n)
                start == total_written
                total2 == total_written + Len(chunk)
                g == GcLocked(AppendChunk(chunks, start, chunk),
                              total2, consumers, lagged)
            IN /\ total_written' = total2
               /\ chunks' = g.chunks
               /\ lagged' = g.lagged
               /\ gc_forced' = g.run
               /\ task_pos' = task_pos + n
               /\ emitted' = emitted \o chunk
    /\ UNCHANGED <<poolVars, STREAM_HUBS, hubs_closed, done, error, producer, consumers,
                   task_pc, task_client, task_cancel, reqVars, fetch_starts, done_sets>>

\* stream_media is exhausted: the `finally` runs
ProducerEof ==
  /\ NoAttachPending
  /\ task_pc = "stream"
  /\ ~task_cancel
  /\ task_pos = FileLen
  /\ RunFinally
  /\ UNCHANGED <<STREAM_HUBS, hubs_closed, chunks, total_written, error, producer,
                 consumers, lagged, task_client, task_pos, task_cancel, reqVars,
                 emitted, fetch_starts, gc_forced>>

\* get_messages or stream_media raises (at any of their awaits, the last one
\* included): the error is recorded, then the `finally`
ProducerFail ==
  /\ NoAttachPending
  /\ task_pc = "stream"
  /\ ~task_cancel
  /\ error' = "UpstreamError"
  /\ RunFinally
  /\ UNCHANGED <<STREAM_HUBS, hubs_closed, chunks, total_written, producer,
                 consumers, lagged, task_client, task_pos, task_cancel, reqVars,
                 emitted, fetch_starts, gc_forced>>

\* the cancellation requested by close() reaches the task.  A task that has
\* not run yet ends without entering its `try`; otherwise CancelledError is
\* re-raised through the `finally`
ProducerCancelled ==
  /\ NoAttachPending
  /\ task_cancel
  /\ task_pc \in {"new", "stream"}
  /\ task_cancel' = FALSE
  /\ IF task_pc = "new"
     THEN /\ task_pc' = "exited"
          /\ UNCHANGED <<poolVars, done, done_sets>>
     ELSE RunFinally
  /\ UNCHANGED <<STREAM_HUBS, hubs_closed, chunks, total_written, error, producer,
                 consumers, lagged, task_client, task_pos, reqVars,
                 emitted, fetch_starts, gc_forced>>

\* close_stream_hubs: the registry is emptied and each hub closed;
\* _StreamHub.close drops the task reference and cancels a task not yet done
CloseStreamHubs ==
  /\ NoAttachPending
  /\ ~hubs_closed
  /\ hubs_closed' = TRUE
  /\ STREAM_HUBS' = {}
  /\ IF STREAM_HUBS # {}
     THEN /\ producer' = "None"
          /\ task_cancel' = (producer = "Task" /\ task_pc # "exited")
     ELSE UNCHANGED <<producer, task_cancel>>
  /\ UNCHANGED <<poolVars, chunks, total_written, done, error, consumers, lagged,
                 task_pc, task_client, task_pos, reqVars, histVars>>

\* ---------------------------------------------------------------- close_stream_hubs, several hubs

\* _hub_key of the resources that have a hub
HubKeys == {"f:a", "f:b", "f:c"}

\* a hub never started
NoProducer == [ref |-> "None", pc |-> "none", cancel |-> FALSE]

\* the close_stream_hubs coroutine before it is called
NoCloseCall == [pc |-> "idle", hubs |-> <<>>, took |-> {}, exc |-> "None"]

\* Task.done()
TaskDone(t) == t.pc \in {"exited", "cancelled"}

\* what `await producer` raises in _StreamHub.close once the task is done:
\* a cancelled task raises CancelledError into the coroutine awaiting it;
\* _run lets no other exception out
AwaitProducer(t) == IF t.pc = "cancelled" THEN "CancelledError" ELSE "None"

\* `except Exception`: CancelledError derives from BaseException, not from
\* Exception, and is let through
CaughtByExceptException(exc) == exc \notin {"None", "CancelledError"}

\* _get_or_create_hub for key k: registered if new, then started.  No request
\* arrives once close_stream_hubs has been called (process shutdown)
RegistryGetOrCreate(k) ==
  /\ close_call.pc = "idle"
  /\ hubs_registry' = IF \E i \in 1..Len(hubs_registry) : hubs_registry[i] = k
                      THEN hubs_registry
                      ELSE Append(hubs_registry, k)
  /\ hub_producer' = [hub_producer EXCEPT ![k] =
                        IF @.ref = "None" \/ TaskDone(@)
                        THEN [ref |-> "Task", pc |-> "running", cancel |-> FALSE]
                        ELSE @]
  /\ hub_producer' # hub_producer
  /\ UNCHANGED close_call

\* the producer of hub k ends by itself: upstream exhausted or failed
RegistryProducerExit(k) ==
  /\ close_call.pc # "loop"
  /\ hub_producer[k].pc = "running"
  /\ ~hub_producer[k].cancel
  /\ hub_producer' = [hub_producer EXCEPT ![k].pc = "exited"]
  /\ UNCHANGED <<hubs_registry, close_call>>

\* the cancellation requested by close() reaches the producer of hub k,
\* which re-raises it (_run, `except asyncio.CancelledError: raise`)
RegistryProducerCancelled(k) ==
  /\ close_call.pc # "loop"
  /\ hub_producer[k].pc = "running"
  /\ hub_producer[k].cancel
  /\ hub_producer' = [hub_producer EXCEPT ![k] = [@ EXCEPT !.pc = "cancelled",
                                                           !.cancel = FALSE]]
  /\ UNCHANGED <<hubs_registry, close_call>>

\* close_stream_hubs under the registry lock: the hubs are copied to a list
\* and the registry cleared
CloseBegin ==
  /\ close_call.pc = "idle"
  /\ hubs_registry # <<>>
  /\ close_call' = [pc |-> "loop", hubs |-> hubs_registry,
                    took |-> {hubs_registry[i] : i \in 1..Len(hubs_registry)},
                    exc |-> "None"]
  /\ hubs_registry' = <<>>
  /\ UNCHANGED hub_producer

\* one pass of `for hub in hubs`: _StreamHub.close up to its await.  The
\* reference is dropped; a task not yet done is cancelled and awaited, and
\* without such a task close returns at once.  Nothing else runs between
\* two passes that do not await
CloseHub ==
  /\ close_call.pc = "loop"
  /\ IF close_call.hubs = <<>>
     THEN /\ close_call' = [close_call EXCEPT !.pc = "returned"]
          /\ UNCHANGED hub_producer
     ELSE LET k == Head(close_call.hubs)
              t == hub_producer[k]
          IN IF t.ref = "Task" /\ ~TaskDone(t)
             THEN /\ hub_producer' = [hub_producer EXCEPT ![k] =
                                        [t EXCEPT !.ref = "None", !.cancel = TRUE]]
                  /\ close_call' = [close_call EXCEPT !.pc = "await"]
             ELSE /\ hub_producer' = [hub_producer EXCEPT ![k].ref = "None"]
                  /\ close_call' = [close_call EXCEPT !.hubs = Tail(@)]
  /\ UNCHANGED hubs_registry

\* the awaited producer is done and `await producer` resumes: what it raises
\* passes the `except Exception` of close and then the one of
\* close_stream_hubs, or leaves both
CloseResume ==
  /\ close_call.pc = "await"
  /\ LET k == Head(close_call.hubs)
         exc == AwaitProducer(hub_producer[k])
     IN /\ TaskDone(hub_producer[k])
        /\ close_call' =
             IF exc = "None" \/ CaughtByExceptException(exc)
             THEN [close_call EXCEPT !.pc = "loop", !.hubs = Tail(@)]
             ELSE [close_call EXCEPT !.pc = "raised", !.exc = exc]
  /\ UNCHANGED <<hubs_registry, hub_producer>>

CloseInit ==
  /\ hubs_registry = <<>>
  /\ hub_producer = [k \in HubKeys |-> NoProducer]
  /\ close_call = NoCloseCall

\* ================================================================ play progress

\* None, for file_size, duration_sec and bitrate_kbps
NoValue == -1

\* the byte offsets ranges are observed at: small ones, and the last byte of
\* the coverage at which 30 s are reached at 1 kbit/s (3750 bytes) and for a
\* file of 10,000,000 bytes lasting 200 s (1,500,000 bytes)
Offsets == (0..MaxSmall) \cup {3749, 1499999}

FileSizes == {NoValue, 0, 10000000}

Durations == {NoValue, 200}

Bitrates == {NoValue, 1}

PlayKeys == {"k1"}

\* the offset that follows p among the offsets
NextOffset(p) == MinOf({q \in Offsets : q > p})

\* the bytes of [start, end], ends at offsets, as a set of segments: <<x, x>>
\* for an offset x in the range, <<p, q>> for the bytes strictly between two
\* successive offsets p and q in the range
RangeSegments(start, end) ==
  {<<x, x>> : x \in {x \in Offsets : start <= x /\ x <= end}}
    \cup {<<p, NextOffset(p)>> :
            p \in {p \in Offsets : /\ start <= p
                                    /\ \E q \in Offsets : q > p
                                    /\ NextOffset(p) > p + 1
                                    /\ NextOffset(p) <= end}}

\* the first loop of _merge_ranges: ranges before the new one are kept, the
\* new one is put before the first range after it, the others are absorbed
RECURSIVE MergeLoop(_, _, _, _, _, _)
MergeLoop(ranges, i, out, inserted, start, end) ==
  IF i > Len(ranges)
  THEN IF inserted THEN out ELSE Append(out, <<start, end>>)
  ELSE LET a == ranges[i][1]
           b == ranges[i][2]
       IN IF b + 1 < start
          THEN MergeLoop(ranges, i + 1, Append(out, ranges[i]), inserted, start, end)
          ELSE IF end + 1 < a
          THEN MergeLoop(ranges, i + 1,
                         (IF inserted THEN out ELSE Append(out, <<start, end>>))
                           \o <<ranges[i]>>,
                         TRUE, start, end)
          ELSE MergeLoop(ranges, i + 1, out, inserted,
                         IF a < start THEN a ELSE start,
                         IF b > end THEN b ELSE end)

\* one insertion of the stable sort by x[0]
RECURSIVE InsertByStart(_, _)
InsertByStart(sorted, r) ==
  IF sorted = <<>> THEN <<r>>
  ELSE IF Head(sorted)[1] <= r[1] THEN <<Head(sorted)>> \o InsertByStart(Tail(sorted), r)
  ELSE <<r>> \o sorted

\* out.sort(key=lambda x: x[0])
RECURSIVE SortByStart(_)
SortByStart(out) ==
  IF out = <<>> THEN <<>>
  ELSE InsertByStart(SortByStart(SubSeq(out, 1, Len(out) - 1)), out[Len(out)])

\* the second loop with only overlapping ranges joined, adjacent ones kept apart
RECURSIVE CoalesceOverlapping(_, _)
CoalesceOverlapping(out, merged) ==
  IF out = <<>> THEN merged
  ELSE LET a == Head(out)[1]
           b == Head(out)[2]
       IN IF merged = <<>> THEN CoalesceOverlapping(Tail(out), <<Head(out)>>)
          ELSE LET la == merged[Len(merged)][1]
                   lb == merged[Len(merged)][2]
               IN IF a <= lb
                  THEN CoalesceOverlapping(Tail(out),
                         [merged EXCEPT ![Len(merged)] = <<la, IF lb > b THEN lb ELSE b>>])
                  ELSE CoalesceOverlapping(Tail(out), Append(merged, Head(out)))

\* the second loop of _merge_ranges: a range starting at or before lb + 1 is
\* joined to the last merged one
RECURSIVE Coalesce(_, _)
Coalesce(out, merged) ==
  IF out = <<>> THEN merged
  ELSE LET a == Head(out)[1]
           b == Head(out)[2]
       IN IF merged = <<>> THEN Coalesce(Tail(out), <<Head(out)>>)
          ELSE LET la == merged[Len(merged)][1]
                   lb == merged[Len(merged)][2]
               IN IF a <= lb + 1
                  THEN Coalesce(Tail(out),
                         [merged EXCEPT ![Len(merged)] = <<la, IF lb > b THEN lb ELSE b>>])
                  ELSE Coalesce(Tail(out), Append(merged, Head(out)))

\* _merge_ranges that joins a new range only to ranges it overlaps
MergeRangesOverlapOnly(ranges, start, end) ==
  IF end < start THEN ranges
  ELSE IF ranges = <<>> THEN <<<<start, end>>>>
  ELSE CoalesceOverlapping(SortByStart(Append(ranges, <<start, end>>)), <<>>)

\* _merge_ranges
MergeRanges(ranges, start, end) ==
  IF end < start THEN ranges
  ELSE IF ranges = <<>> THEN <<<<start, end>>>>
  ELSE Coalesce(SortByStart(MergeLoop(ranges, 1, <<>>, FALSE, start, end)), <<>>)

\* _covered_bytes
RECURSIVE CoveredBytes(_)
CoveredBytes(ranges) ==
  IF ranges = <<>> THEN 0
  ELSE LET n == Head(ranges)[2] - Head(ranges)[1] + 1
       IN (IF n > 0 THEN n ELSE 0) + CoveredBytes(Tail(ranges))

\* _seconds_from_bytes with the bit rate consulted first
SecondsFromBytesBitrateFirst(covered, file_size, duration_sec, bitrate_kbps) ==
  IF bitrate_kbps # NoValue /\ bitrate_kbps > 0
  THEN <<covered * 8, bitrate_kbps * 1000>>
  ELSE IF file_size # NoValue /\ duration_sec # NoValue /\ file_size > 0 /\ duration_sec > 0
  THEN <<covered * duration_sec, file_size>>
  ELSE <<0, 1>>

\* _seconds_from_bytes: the seconds as the fraction <<numerator, denominator>>
\* (covered / (bitrate_kbps * 1000 / 8) is covered * 8 / (bitrate_kbps * 1000))
SecondsFromBytes(covered, file_size, duration_sec, bitrate_kbps) ==
  IF file_size # NoValue /\ duration_sec # NoValue /\ file_size > 0 /\ duration_sec > 0
  THEN <<covered * duration_sec, file_size>>
  ELSE IF bitrate_kbps # NoValue /\ bitrate_kbps > 0
  THEN <<covered * 8, bitrate_kbps * 1000>>
  ELSE <<0, 1>>

\* sec >= float(_PLAY_COUNT_THRESHOLD_SEC)
ReachesThreshold(sec) == sec[1] >= PLAY_COUNT_THRESHOLD_SEC * sec[2]

\* position of the key's entry in the table, 0 when it has none
EntryIndex(table, key) ==
  IF \E i \in 1..Len(table) : table[i].key = key
  THEN CHOOSE i \in 1..Len(table) : table[i].key = key
  ELSE 0

\* the keys of items[: n] of the table sorted by last_seen (stable)
OldestKeys(table, n) ==
  {table[i].key : i \in {i \in 1..Len(table) :
      Cardinality({j \in 1..Len(table) :
          \/ table[j].last_seen < table[i].last_seen
          \/ (table[j].last_seen = table[i].last_seen /\ j < i)}) < n}}

\* _prune_play_progress_locked with the sort reversed: the newest are dropped
PrunePlayProgressNewestFirst(table, t) ==
  LET Fresh(e) == ~(t - e.last_seen > PLAY_PROGRESS_TTL)
      t1 == SelectSeq(table, Fresh)
      keep == OldestKeys(t1, PLAY_PROGRESS_MAX)
      Kept(e) == e.key \in keep
  IN IF Len(t1) <= PLAY_PROGRESS_MAX THEN t1 ELSE SelectSeq(t1, Kept)

\* _prune_play_progress_locked
PrunePlayProgress(table, t) ==
  LET Fresh(e) == ~(t - e.last_seen > PLAY_PROGRESS_TTL)
      t1 == SelectSeq(table, Fresh)
      drop == OldestKeys(t1, Len(t1) - PLAY_PROGRESS_MAX)
      Kept(e) == e.key \notin drop
  IN IF Len(t1) <= PLAY_PROGRESS_MAX THEN t1 ELSE SelectSeq(t1, Kept)

\* the body of _update_play_progress past the early return, which is left out
UpdateEntryNoGuard(e, start, end) ==
  LET ranges == MergeRanges(e.ranges, start, end)
      sec == SecondsFromBytes(CoveredBytes(ranges), e.file_size, e.duration_sec,
                              e.bitrate_kbps)
  IN IF ReachesThreshold(sec)
     THEN [entry |-> [e EXCEPT !.ranges = ranges, !.counted = TRUE], hit |-> TRUE]
     ELSE [entry |-> [e EXCEPT !.ranges = ranges], hit |-> FALSE]

\* _update_play_progress from `if prog.counted` on: the entry and the result
UpdateEntry(e, start, end) ==
  IF e.counted THEN [entry |-> e, hit |-> FALSE]
  ELSE LET ranges == MergeRanges(e.ranges, start, end)
           sec == SecondsFromBytes(CoveredBytes(ranges), e.file_size, e.duration_sec,
                                   e.bitrate_kbps)
       IN IF ReachesThreshold(sec)
          THEN [entry |-> [e EXCEPT !.ranges = ranges, !.counted = TRUE], hit |-> TRUE]
          ELSE [entry |-> [e EXCEPT !.ranges = ranges], hit |-> FALSE]

NoPlayCall ==
  [key |-> "none", hit |-> FALSE, was_counted |-> FALSE, created |-> FALSE,
   meta |-> [file_size |-> NoValue, duration_sec |-> NoValue, bitrate_kbps |-> NoValue]]

\* the variant in which a field once set keeps its value
StoreMetaFirstWins(stored, given) == IF stored # NoValue THEN stored ELSE given

\* `if file_size is not None: prog.file_size = int(file_size)`, and the same
\* for the duration and the bit rate: a value given replaces the one stored
StoreMeta(stored, given) == IF given # NoValue THEN given ELSE stored

\* _update_play_progress(key, start, end, file_size, duration_sec, bitrate_kbps)
UpdatePlayProgress(key, start, end, file_size, duration_sec, bitrate_kbps) ==
  LET pruned == PrunePlayProgress(PLAY_PROGRESS, now)
      created == EntryIndex(pruned, key) = 0
      table == IF created
               THEN Append(pruned, [key |-> key, file_size |-> file_size,
                                    duration_sec |-> duration_sec,
                                    bitrate_kbps |-> bitrate_kbps, ranges |-> <<>>,
                                    counted |-> FALSE, last_seen |-> now])
               ELSE pruned
      i == EntryIndex(table, key)
      prog == [table[i] EXCEPT
                 !.last_seen = now,
                 !.file_size = StoreMeta(@, file_size),
                 !.duration_sec = StoreMeta(@, duration_sec),
                 !.bitrate_kbps = StoreMeta(@, bitrate_kbps)]
      r == UpdateEntry(prog, start, end)
      gone == {k \in PlayKeys : EntryIndex(pruned, k) = 0}
      merged == ~prog.counted /\ start <= end
  IN /\ PLAY_PROGRESS' = [table EXCEPT ![i] = r.entry]
     /\ play_call' = [key |-> key, hit |-> r.hit, was_counted |-> prog.counted,
                      created |-> created,
                      meta |-> [file_size |-> file_size, duration_sec |-> duration_sec,
                                bitrate_kbps |-> bitrate_kbps]]
     /\ observed' = [k \in PlayKeys |->
                       IF k = key
                       THEN (IF created THEN {} ELSE observed[k])
                              \cup (IF merged THEN RangeSegments(start, end) ELSE {})
                       ELSE IF k \in gone THEN {} ELSE observed[k]]
     /\ fires' = [k \in PlayKeys |->
                    IF k = key
                    THEN (IF created THEN 0 ELSE fires[k]) + (IF r.hit THEN 1 ELSE 0)
                    ELSE IF k \in gone THEN 0 ELSE fires[k]]
     /\ UNCHANGED <<track_meta, now>>

\* an observe call for any range of the track, with the track's metadata
Observe ==
  \E key \in PlayKeys, start \in Offsets, end \in Offsets :
    UpdatePlayProgress(key, start, end, track_meta.file_size, track_meta.duration_sec,
                       track_meta.bitrate_kbps)

\* the keys of the observe calls of several listeners and tracks
PruneKeys == {"k1", "k2", "k3"}

\* an observe call of any of the keys, for a short range
ObserveAny ==
  \E key \in PruneKeys, start \in 0..1, end \in 0..1 :
    UpdatePlayProgress(key, start, end, track_meta.file_size, track_meta.duration_sec,
                       track_meta.bitrate_kbps)

\* the metadata of the track documents that the calls of one key can carry:
\* missing, or one of two sizes, one duration, one bit rate
MetaInputs ==
  [file_size : {NoValue, 10000000, 20000000}, duration_sec : Durations,
   bitrate_kbps : Bitrates]

\* an observe call of the key from byte 0 up to one of the two threshold
\* offsets, carrying any metadata
ObserveWithMeta ==
  \E key \in PlayKeys, end \in {3749, 1499999}, m \in MetaInputs :
    UpdatePlayProgress(key, 0, end, m.file_size, m.duration_sec, m.bitrate_kbps)

\* time passes
Tick ==
  /\ now < MaxTime
  /\ now' = now + 1
  /\ UNCHANGED <<PLAY_PROGRESS, track_meta, play_call, observed, fires>>

\* the table at import: empty
PlayStart ==
  /\ PLAY_PROGRESS = <<>>
  /\ now = 0
  /\ play_call = NoPlayCall
  /\ observed = [k \in PlayKeys |-> {}]
  /\ fires = [k \in PlayKeys |-> 0]

\* a track document without metadata
PlayInit ==
  /\ PlayStart
  /\ track_meta = [file_size |-> NoValue, duration_sec |-> NoValue,
                   bitrate_kbps |-> NoValue]

\* ================================================================ _register_play

PlayCalls == 1..MaxCalls

\* user_id as _request_user_id returns it: None, or the id of a verified
\* token, an integer above 0
PlayUsers == {NoValue, 7}

\* user_id is not None and int(user_id) > 0
Identified(u) == u # NoValue /\ u > 0

\* a slot no task uses yet
IdleCall == [pc |-> "idle", user |-> NoValue, bucket |-> NoValue,
             upserted |-> FALSE, outcome |-> "none"]

\* f"{int(user_id)}:{track_id}:{played_bucket}", for the one track of the model
PlayKey(c) == <<c.user, c.bucket>>

\* asyncio.create_task(_register_play(...)): the task exists and has not run
CreatePlayTask(reg) ==
  IF \E k \in PlayCalls : reg[k].pc = "idle"
  THEN LET k == CHOOSE i \in PlayCalls :
                  reg[i].pc = "idle" /\ \A j \in PlayCalls : reg[j].pc = "idle" => i <= j
       IN [reg EXCEPT ![k].pc = "created"]
  ELSE reg

\* a wrapper of some request creates the task
RegisterPlayCreate ==
  /\ \E k \in PlayCalls : play_reg[k].pc = "idle"
  /\ play_reg' = CreatePlayTask(play_reg)
  /\ UNCHANGED <<user_plays, global_plays>>

\* the task runs to its first await: tasks start in the order of their
\* creation; an identified listener goes to the upsert of the per-listener
\* record, an anonymous one keeps should_count_global and goes to the
\* aggregate write
RegisterPlayBegin(k) ==
  /\ play_reg[k].pc = "created"
  /\ \A j \in PlayCalls : j < k => play_reg[j].pc \notin {"idle", "created"}
  /\ \E u \in PlayUsers, b \in 0..MaxBucket :
       play_reg' = [play_reg EXCEPT
                      ![k].user = u,
                      ![k].bucket = IF Identified(u) THEN b ELSE NoValue,
                      ![k].pc = IF Identified(u) THEN "insert" ELSE "inc"]
  /\ UNCHANGED <<user_plays, global_plays>>

\* the variant that counts whatever the upsert reports
UserUpsertAlwaysCounts(k) ==
  /\ play_reg[k].pc = "insert"
  /\ user_plays' = user_plays \cup {PlayKey(play_reg[k])}
  /\ play_reg' = [play_reg EXCEPT ![k].upserted = PlayKey(play_reg[k]) \notin user_plays,
                                  ![k].pc = "inc"]
  /\ UNCHANGED global_plays

\* userplayback.update_one({"_id": key}, {"$setOnInsert": doc}, upsert=True)
\* returns: the store applies it in one step; upserted_id is set only when
\* the document was inserted, and should_count_global is its truth value
UserUpsertDone(k) ==
  /\ play_reg[k].pc = "insert"
  /\ LET key == PlayKey(play_reg[k])
         inserted == key \notin user_plays
     IN /\ user_plays' = user_plays \cup {key}
        /\ play_reg' = [play_reg EXCEPT
                          ![k].upserted = inserted,
                          ![k].pc = IF inserted THEN "inc" ELSE "done",
                          ![k].outcome = IF inserted THEN "none" ELSE "duplicate"]
  /\ UNCHANGED global_plays

\* the upsert raises: should_count_global = False and the task returns; the
\* store may or may not have applied the write before the error
UserUpsertFail(k) ==
  /\ play_reg[k].pc = "insert"
  /\ \E applied \in BOOLEAN :
       user_plays' = IF applied THEN user_plays \cup {PlayKey(play_reg[k])}
                     ELSE user_plays
  /\ play_reg' = [play_reg EXCEPT ![k].pc = "done", ![k].outcome = "insert_failed"]
  /\ UNCHANGED global_plays

\* globalplayback.update_one({"_id": track_id}, {"$inc": {"plays": 1, ...}},
\* upsert=True) returns
GlobalIncDone(k) ==
  /\ play_reg[k].pc = "inc"
  /\ global_plays' = global_plays + 1
  /\ play_reg' = [play_reg EXCEPT ![k].pc = "done", ![k].outcome = "counted"]
  /\ UNCHANGED user_plays

\* the aggregate write raises: the task returns
GlobalIncFail(k) ==
  /\ play_reg[k].pc = "inc"
  /\ play_reg' = [play_reg EXCEPT ![k].pc = "done", ![k].outcome = "inc_failed"]
  /\ UNCHANGED <<user_plays, global_plays>>

\* no task, both collections empty
RegInit ==
  /\ play_reg = [k \in PlayCalls |-> IdleCall]
  /\ user_plays = {}
  /\ global_plays = 0

\* ================================================================ stream_track

\* the stream_track requests followed: two concurrent ones, numbered in the
\* order they arrive
TrackRequests == {1, 2}

\* the Range header as the regular expression of _parse_range_header sees it:
\* the unit before `=`, the digits before `-` and the digits after it
\* (NoValue where there are none); unit "" is a request without the header
NoHeader == [unit |-> "", start |-> NoValue, end |-> NoValue]

RangeHeaders ==
  {NoHeader,
   [unit |-> "items", start |-> 0, end |-> NoValue],
   [unit |-> "bytes", start |-> NoValue, end |-> 1],
   [unit |-> "bytes", start |-> FileLen - 1, end |-> 0]}
    \cup [unit : {"bytes"}, start : 0..FileLen, end : {NoValue}]
    \cup [unit : {"bytes"}, start : {0, 1}, end : {1, FileLen}]

\* the requests made: a GET with any of the headers, a HEAD without a Range
\* header or with a range of two bytes
TrackInputs ==
  [method : {"GET"}, header : RangeHeaders]
    \cup [method : {"HEAD"},
          header : {NoHeader, [unit |-> "bytes", start |-> 0, end |-> 1]}]

\* a GET with any byte range of the resource, its end given or left open
RangeInputs ==
  [method : {"GET"},
   header : [unit : {"bytes"}, start : 0..FileLen, end : {NoValue} \cup (0..FileLen)]]

\* the file_size of the track document: missing, zero or the resource's size
TrackSizes == {NoValue, 0, FileLen}

\* _parse_range_header: <<start, end>>, NoValue for None
ParseRangeHeader(h) ==
  IF h.unit # "bytes" \/ h.start = NoValue THEN <<NoValue, NoValue>>
  ELSE IF h.end # NoValue /\ h.end < h.start THEN <<NoValue, NoValue>>
  ELSE <<h.start, h.end>>

\* the 416 test with a strict comparison
RangeNotSatisfiableStrict(has_range, from_bytes, file_size) ==
  file_size # NoValue /\ has_range /\ from_bytes > file_size

\* the 416 test of stream_track
RangeNotSatisfiable(has_range, from_bytes, file_size) ==
  file_size # NoValue /\ has_range /\ from_bytes >= file_size

\* stream_track from the Range header to the response headers: the status,
\* Content-Range (<<>> when absent), Content-Length (NoValue when absent)
\* and the arguments of the body iterator
BuildResponse(h, file_size) ==
  LET parsed == ParseRangeHeader(h)
      has_range == h.unit # "" /\ parsed[1] # NoValue
      from_bytes == IF parsed[1] = NoValue THEN 0 ELSE parsed[1]
      until0 == IF ~has_range THEN NoValue
                ELSE IF parsed[2] # NoValue THEN parsed[2]
                ELSE IF file_size # NoValue THEN file_size - 1
                ELSE NoValue
      until_bytes == IF file_size # NoValue /\ until0 # NoValue /\ file_size - 1 < until0
                     THEN file_size - 1 ELSE until0
      status_code == IF RangeNotSatisfiable(has_range, from_bytes, file_size) THEN 416
                     ELSE IF has_range /\ file_size # NoValue /\ until_bytes # NoValue
                     THEN 206 ELSE 200
  IN [status |-> status_code,
      content_range |-> IF status_code = 206
                        THEN <<from_bytes, until_bytes, file_size>> ELSE <<>>,
      content_length |-> IF status_code = 206
                         THEN (until_bytes - from_bytes) + 1 ELSE NoValue,
      kind |-> IF status_code = 206 THEN "range" ELSE "direct",
      from_bytes |-> IF status_code = 206 THEN from_bytes ELSE 0,
      until_bytes |-> IF status_code = 206 THEN until_bytes ELSE NoValue]

\* the affinity lookup: the handle of a fresh entry, NoClient otherwise
AffinityClient(entry, t) ==
  IF entry # <<>> /\ t - entry[2] <= TRACK_AFFINITY_TTL_SEC THEN entry[1] ELSE NoClient

\* the entry after the lookup: an expired one is popped
AffinityAfterLookup(entry, t) ==
  IF entry # <<>> /\ t - entry[2] <= TRACK_AFFINITY_TTL_SEC THEN entry ELSE <<>>

\* the variant in which the lookup precedes the tests that reject
AffinityAtRejectionLookedUp(entry, t) == AffinityAfterLookup(entry, t)

\* the entry when stream_track raises 503, 404 or 416: each is raised
\* before the lookup, which is therefore not made and pops nothing
AffinityAtRejection(entry, t) == entry

\* the acquire of stream_track without the affinity branch
AcquireForTrackNoAffinity(loads, rr, preferred, affinity) ==
  IF preferred = {} THEN AcquireStreamClient(loads, rr)
  ELSE AcquireStreamClientPrefer(loads, rr, preferred)

\* the acquire of stream_track: the affinity handle when it has a cached
\* identifier, else the handles with a cached identifier, else any handle
AcquireForTrack(loads, rr, preferred, affinity) ==
  IF preferred = {} THEN AcquireStreamClient(loads, rr)
  ELSE IF affinity # NoClient /\ affinity \in preferred
  THEN LET a == AcquireStreamClientPrefer(loads, rr, {affinity})
       IN IF a.ok THEN a ELSE AcquireStreamClientPrefer(loads, rr, preferred)
  ELSE AcquireStreamClientPrefer(loads, rr, preferred)

IdleRequest ==
  [pc |-> "idle", method |-> "GET", header |-> NoHeader, status |-> 0,
   content_range |-> <<>>, content_length |-> NoValue, client |-> NoClient,
   kind |-> "none",
   from_bytes |-> 0, until_bytes |-> NoValue, up_pos |-> 0, skip |-> 0,
   out_end |-> NoValue, pending |-> 0, body |-> <<>>, cursor |-> 0,
   last_flush |-> 0, triggered |-> FALSE, releases |-> 0, reported |-> <<>>]

\* the wrapper counting the bytes of every request, HEAD included
WrapperCountsAlways(q) == TRUE

\* the wrapper counts the bytes it passes on: not for HEAD, whose chunks go
\* through the first loop of _wrap_with_play_count
WrapperCounts(q) == q.method # "HEAD"

\* the finally block of _wrap_with_play_count makes its observe call
WrapperFlushes(q) == WrapperCounts(q) /\ ~q.triggered /\ q.cursor > q.last_flush

\* the variant in which every call reports from the first byte on
WrapperRangeFromStart(q, cursor) == <<q.from_bytes, cursor - 1>>

\* the range of an observe call of the wrapper: start = last_flush,
\* end = cursor - 1
WrapperRange(q, cursor) == <<q.last_flush, cursor - 1>>

\* the observe call of the wrapper for [start, end], when it makes one, and
\* the _register_play task created on a True return
WrapperObserve(calls, start, end) ==
  IF calls
  THEN /\ UpdatePlayProgress("k1", start, end, track_meta.file_size,
                             track_meta.duration_sec, track_meta.bitrate_kbps)
       /\ plays' = plays + (IF play_call'.hit THEN 1 ELSE 0)
       /\ play_reg' = IF play_call'.hit THEN CreatePlayTask(play_reg) ELSE play_reg
       /\ UNCHANGED <<user_plays, global_plays>>
  ELSE UNCHANGED <<playVars, plays, regVars>>

\* the body ends in state pc: the finally of _stream_range / _direct_stream
\* releases the handle, the finally of the wrapper flushes what it has counted
CloseBody(r, q, pc) ==
  /\ work_loads' = ReleaseLoads(work_loads, q.client)
  /\ WrapperObserve(WrapperFlushes(q), WrapperRange(q, q.cursor)[1],
                    WrapperRange(q, q.cursor)[2])
  /\ trk' = [trk EXCEPT ![r] =
       [q EXCEPT !.pc = pc, !.releases = @ + 1,
                 !.reported = IF WrapperFlushes(q)
                              THEN Append(@, WrapperRange(q, q.cursor)) ELSE @]]
  /\ UNCHANGED <<rr_cursor, primary_user_id, MULTI_CLIENTS, pool_call,
                 TRACK_AFFINITY, file_ids>>

\* stream_track from the return of find_one to the first await of the
\* identifier resolution, or to the response when the identifier is cached
TrackBeginWith(r, inputs) ==
  /\ trk[r].pc = "idle"
  /\ \A d \in TrackRequests : d < r => trk[d].pc # "idle"
  /\ \E in \in inputs, found \in BOOLEAN :
       LET method == in.method
           h == in.header
           resp == BuildResponse(h, track_meta.file_size)
           affinity == AffinityClient(TRACK_AFFINITY, now)
           a == AcquireForTrack(work_loads, rr_cursor, file_ids, affinity)
           q == [trk[r] EXCEPT !.method = method, !.header = h]
           Rejected(code) ==
             /\ trk' = [trk EXCEPT ![r] = [q EXCEPT !.pc = "rejected", !.status = code]]
             /\ TRACK_AFFINITY' = AffinityAtRejection(TRACK_AFFINITY, now)
             /\ UNCHANGED <<work_loads, rr_cursor>>
       IN /\ IF DOMAIN work_loads = {} THEN Rejected(503)
             ELSE IF ~found THEN Rejected(404)
             ELSE IF resp.status = 416 THEN Rejected(416)
             ELSE IF ~a.ok
             THEN /\ trk' = [trk EXCEPT ![r] = [q EXCEPT !.pc = "error", !.status = 500]]
                  /\ TRACK_AFFINITY' = AffinityAfterLookup(TRACK_AFFINITY, now)
                  /\ UNCHANGED <<work_loads, rr_cursor>>
             ELSE /\ work_loads' = a.loads
                  /\ rr_cursor' = a.rr
                  /\ TRACK_AFFINITY' = <<a.cid, now>>
                  /\ trk' = [trk EXCEPT ![r] =
                       [q EXCEPT !.pc = IF a.cid \in file_ids THEN "ready" ELSE "resolve",
                                 !.status = resp.status,
                                 !.content_range = resp.content_range,
                                 !.content_length = resp.content_length,
                                 !.client = a.cid,
                                 !.kind = resp.kind,
                                 !.from_bytes = resp.from_bytes,
                                 !.until_bytes = resp.until_bytes]]
          /\ UNCHANGED <<primary_user_id, MULTI_CLIENTS, pool_call, file_ids, plays,
                         regVars, playVars>>

TrackBegin(r) == TrackBeginWith(r, TrackInputs)

\* the identifier resolution succeeds (the primary's identifier or
\* _ensure_client_file_id): it is cached in the document, the response is built
TrackResolved(r) ==
  /\ trk[r].pc = "resolve"
  /\ file_ids' = file_ids \cup {trk[r].client}
  /\ trk' = [trk EXCEPT ![r].pc = "ready"]
  /\ UNCHANGED <<poolVars, TRACK_AFFINITY, plays, regVars, playVars>>

\* the identifier resolution raises: the handle is released, the request fails
TrackResolveFailed(r) ==
  /\ trk[r].pc = "resolve"
  /\ work_loads' = ReleaseLoads(work_loads, trk[r].client)
  /\ trk' = [trk EXCEPT ![r].pc = "error", ![r].status = 500,
                        ![r].content_range = <<>>, ![r].content_length = NoValue,
                        ![r].releases = @ + 1]
  /\ UNCHANGED <<rr_cursor, primary_user_id, MULTI_CLIENTS, pool_call,
                 TRACK_AFFINITY, file_ids, plays, regVars, playVars>>

\* the response is discarded before its body iterator is asked for a chunk:
\* the body of neither generator has started, so no finally block runs
TrackDropUnstarted(r) ==
  /\ trk[r].pc = "ready"
  /\ trk' = [trk EXCEPT ![r].pc = "dropped"]
  /\ UNCHANGED <<poolVars, TRACK_AFFINITY, file_ids, plays, regVars, playVars>>

\* the first chunk is asked for: the wrapper and the iterator run up to the
\* first await on stream_media
TrackStart(r) ==
  /\ trk[r].pc = "ready"
  /\ trk' = [trk EXCEPT
       ![r].pc = "await",
       ![r].cursor = trk[r].from_bytes,
       ![r].last_flush = trk[r].from_bytes,
       ![r].skip = 0,
       ![r].up_pos = IF trk[r].kind = "range"
                     THEN (trk[r].from_bytes \div CHUNK_SIZE) * CHUNK_SIZE ELSE 0]
  /\ UNCHANGED <<poolVars, TRACK_AFFINITY, file_ids, plays, regVars, playVars>>

\* _stream_range with the chunk yielded whole, not cut to the range
RangeStepWholeChunk(q, chunk_start, chunk_end) ==
  LET until_bytes == IF q.until_bytes = NoValue THEN NoValue
                     ELSE IF q.until_bytes < q.from_bytes THEN q.from_bytes
                     ELSE q.until_bytes
  IN IF chunk_end < q.from_bytes THEN [op |-> "continue"]
     ELSE IF until_bytes # NoValue /\ chunk_start > until_bytes THEN [op |-> "return"]
     ELSE [op |-> "yield", data |-> FileBytes(chunk_start, chunk_end + 1),
           out_end |-> chunk_end, skip |-> 0]

\* what _stream_range does with the chunk [chunk_start, chunk_end]
RangeStep(q, chunk_start, chunk_end) ==
  LET until_bytes == IF q.until_bytes = NoValue THEN NoValue
                     ELSE IF q.until_bytes < q.from_bytes THEN q.from_bytes
                     ELSE q.until_bytes
      out_start == IF q.from_bytes > chunk_start THEN q.from_bytes ELSE chunk_start
      out_end == IF until_bytes # NoValue /\ until_bytes < chunk_end
                 THEN until_bytes ELSE chunk_end
  IN IF chunk_end < q.from_bytes THEN [op |-> "continue"]
     ELSE IF until_bytes # NoValue /\ chunk_start > until_bytes THEN [op |-> "return"]
     ELSE IF out_start <= out_end
     THEN [op |-> "yield", data |-> FileBytes(out_start, out_end + 1),
           out_end |-> out_end, skip |-> 0]
     ELSE IF until_bytes # NoValue /\ out_end >= until_bytes THEN [op |-> "return"]
     ELSE [op |-> "continue"]

\* what _direct_stream does with the chunk [chunk_start, chunk_end]
DirectStep(q, chunk_start, chunk_end) ==
  LET n == chunk_end - chunk_start + 1
  IN IF q.skip > 0 /\ n <= q.skip THEN [op |-> "continue", skip |-> q.skip - n]
     ELSE [op |-> "yield", data |-> FileBytes(chunk_start + q.skip, chunk_end + 1),
           out_end |-> chunk_end, skip |-> 0]

\* stream_media delivers the next chunk to the body iterator, which skips
\* it, yields its part of it through the wrapper, or returns
TrackUpChunk(r) ==
  /\ trk[r].pc = "await"
  /\ trk[r].up_pos < FileLen
  /\ LET q == trk[r]
         chunk_start == q.up_pos
         n == IF FileLen - chunk_start < CHUNK_SIZE THEN FileLen - chunk_start
              ELSE CHUNK_SIZE
         step == IF q.kind = "range" THEN RangeStep(q, chunk_start, chunk_start + n - 1)
                 ELSE DirectStep(q, chunk_start, chunk_start + n - 1)
         q1 == [q EXCEPT !.up_pos = chunk_start + n]
     IN IF step.op = "return" THEN CloseBody(r, q1, "done")
        ELSE /\ trk' = [trk EXCEPT ![r] =
                  IF step.op = "yield"
                  THEN [q1 EXCEPT !.pc = "sending", !.body = @ \o step.data,
                                  !.pending = Len(step.data),
                                  !.out_end = step.out_end, !.skip = step.skip]
                  ELSE [q1 EXCEPT !.skip = IF q.kind = "range" THEN @ ELSE step.skip]]
             /\ UNCHANGED <<poolVars, TRACK_AFFINITY, file_ids, plays, regVars, playVars>>

\* stream_media is exhausted: the iterator and the wrapper end
TrackUpEof(r) ==
  /\ trk[r].pc = "await"
  /\ trk[r].up_pos >= FileLen
  /\ CloseBody(r, trk[r], "done")

\* stream_media raises: both finally blocks run, the response breaks off
TrackUpFail(r) ==
  /\ trk[r].pc = "await"
  /\ CloseBody(r, trk[r], "failed")

\* the chunk was sent and the next one is asked for: the wrapper counts the
\* chunk and observes a full span, _stream_range returns once the last byte
\* of the range went out
TrackSent(r) ==
  /\ trk[r].pc = "sending"
  /\ LET q == trk[r]
         counts == WrapperCounts(q)
         cursor == IF counts THEN q.cursor + q.pending ELSE q.cursor
         calls == /\ counts
                  /\ ~q.triggered
                  /\ cursor - q.last_flush >= PLAY_PROGRESS_UPDATE_EVERY_BYTES
         returns == /\ q.kind = "range"
                    /\ q.until_bytes # NoValue
                    /\ q.out_end >= q.until_bytes
         q1 == [q EXCEPT !.cursor = cursor, !.pending = 0]
     IN IF calls
        THEN /\ WrapperObserve(TRUE, WrapperRange(q, cursor)[1], WrapperRange(q, cursor)[2])
             /\ trk' = [trk EXCEPT ![r] =
                  [q1 EXCEPT !.last_flush = cursor,
                             !.reported = Append(@, WrapperRange(q, cursor)),
                             !.triggered = play_call'.hit,
                             !.pc = IF returns THEN "done" ELSE "await",
                             !.releases = IF returns THEN @ + 1 ELSE @]]
             /\ work_loads' = IF returns THEN ReleaseLoads(work_loads, q.client)
                              ELSE work_loads
             /\ UNCHANGED <<rr_cursor, primary_user_id, MULTI_CLIENTS, pool_call,
                            TRACK_AFFINITY, file_ids>>
        ELSE IF returns THEN CloseBody(r, q1, "done")
        ELSE /\ trk' = [trk EXCEPT ![r] = [q1 EXCEPT !.pc = "await"]]
             /\ UNCHANGED <<poolVars, TRACK_AFFINITY, file_ids, plays, regVars, playVars>>

\* the client disconnects while the body is being produced: the generators
\* are closed, both finally blocks run
TrackDisconnect(r) ==
  /\ trk[r].pc \in {"await", "sending"}
  /\ CloseBody(r, trk[r], "disconnected")

\* the variant in which the wrapper awaits the task and lets its failure out
AfterPlayTaskAwaited(q, c) ==
  IF q.pc \in {"await", "sending"} /\ c.outcome \in {"insert_failed", "inc_failed"}
  THEN [q EXCEPT !.pc = "failed"]
  ELSE q

\* what a step of a _register_play task does to a request: the wrapper
\* drops the task that asyncio.create_task returns and never awaits it, so
\* neither its result nor its failure reaches the generator
AfterPlayTask(q, c) == q

\* one step of task k next to the requests
PlayTaskStep(k, step) ==
  /\ step
  /\ trk' = [r \in TrackRequests |-> AfterPlayTask(trk[r], play_reg'[k])]
  /\ UNCHANGED <<poolVars, hubVars, taskVars, reqVars, histVars, closeVars, playVars,
                 TRACK_AFFINITY, file_ids, plays>>

\* no request yet, no affinity, no identifier cached in the document
TrackInit ==
  /\ trk = [r \in TrackRequests |-> IdleRequest]
  /\ TRACK_AFFINITY = <<>>
  /\ file_ids = {}
  /\ plays = 0
  /\ RegInit

\* ================================================================ specifications

HubInit ==
  /\ STREAM_HUBS = {}
  /\ hubs_closed = FALSE
  /\ chunks = <<>>
  /\ total_written = 0
  /\ done = FALSE
  /\ error = "None"
  /\ producer = "None"
  /\ consumers = [c \in {} |-> 0]
  /\ lagged = {}
  /\ task_pc = "none"
  /\ task_client = NoClient
  /\ task_pos = 0
  /\ task_cancel = FALSE
  /\ req_pc = [c \in Consumers |-> "idle"]
  /\ req_start = [c \in Consumers |-> 0]
  /\ sent = [c \in Consumers |-> 0]
  /\ got = [c \in Consumers |-> <<>>]
  /\ direct_client = [c \in Consumers |-> NoClient]
  /\ direct_pos = [c \in Consumers |-> 0]
  /\ remaining_skip = [c \in Consumers |-> 0]
  /\ emitted = <<>>
  /\ fetch_starts = 0
  /\ done_sets = 0
  /\ gc_forced = FALSE
  /\ CloseInit

\* the hub system: multi-client mode with the primary and one more handle,
\* or a pool with no client at all
Init ==
  /\ HubInit
  /\ MULTI_CLIENTS = TRUE
  /\ primary_user_id = 1
  /\ work_loads \in {[h \in {} |-> 0], [h \in {1, 2} |-> 0]}
  /\ rr_cursor = 0
  /\ pool_call = NoCall
  /\ PlayInit
  /\ TrackInit

Next ==
  \/ (WarmTrack /\ UNCHANGED extVars)
  \/ (CloseStreamHubs /\ UNCHANGED extVars)
  \/ (ProducerAcquire /\ UNCHANGED extVars)
  \/ (ProducerChunk /\ UNCHANGED extVars)
  \/ (ProducerEof /\ UNCHANGED extVars)
  \/ (ProducerFail /\ UNCHANGED extVars)
  \/ (ProducerCancelled /\ UNCHANGED extVars)
  \/ \E c \in Consumers : (StreamFileIdBegin(c) /\ UNCHANGED extVars)
  \/ \E c \in Consumers : (HubYield(c) /\ UNCHANGED extVars)
  \/ \E c \in Consumers : (HubWait(c) /\ UNCHANGED extVars)
  \/ \E c \in Consumers : (HubEof(c) /\ UNCHANGED extVars)
  \/ \E c \in Consumers : (HubError(c) /\ UNCHANGED extVars)
  \/ \E c \in Consumers : (HubBehind(c) /\ UNCHANGED extVars)
  \/ \E c \in Consumers : (HubStop(c) /\ UNCHANGED extVars)
  \/ \E c \in Consumers : (DirectChunk(c) /\ UNCHANGED extVars)
  \/ \E c \in Consumers : (DirectEof(c) /\ UNCHANGED extVars)
  \/ \E c \in Consumers : (DirectFail(c) /\ UNCHANGED extVars)
  \/ \E c \in Consumers : (DirectStop(c) /\ UNCHANGED extVars)

Spec == Init /\ [][Next]_vars

\* the hub with its producer and consumers; a request that fell behind is
\* followed up to the start of its fallback (the fallback touches no hub state)
NextHub ==
  \/ (WarmTrack /\ UNCHANGED extVars)
  \/ (CloseStreamHubs /\ UNCHANGED extVars)
  \/ (ProducerAcquire /\ UNCHANGED extVars)
  \/ (ProducerChunk /\ UNCHANGED extVars)
  \/ (ProducerEof /\ UNCHANGED extVars)
  \/ (ProducerFail /\ UNCHANGED extVars)
  \/ (ProducerCancelled /\ UNCHANGED extVars)
  \/ \E c \in Consumers : (StreamFileIdBegin(c) /\ UNCHANGED extVars)
  \/ \E c \in Consumers : (HubYield(c) /\ UNCHANGED extVars)
  \/ \E c \in Consumers : (HubWait(c) /\ UNCHANGED extVars)
  \/ \E c \in Consumers : (HubEof(c) /\ UNCHANGED extVars)
  \/ \E c \in Consumers : (HubError(c) /\ UNCHANGED extVars)
  \/ \E c \in Consumers : (HubBehind(c) /\ UNCHANGED extVars)
  \/ \E c \in Consumers : (HubStop(c) /\ UNCHANGED extVars)

SpecHub == Init /\ [][NextHub]_vars

\* the first pass of the loop of iter_bytes, which follows the registration
\* without a suspension
FirstPass(c) ==
  /\ req_pc[c] = "attach"
  /\ (HubYield(c) \/ HubWait(c) \/ HubEof(c) \/ HubError(c) \/ HubBehind(c))

\* the hub with one consumer and a fair producer: the event loop runs the
\* task when it is ready, the upstream delivers its next chunk or its end,
\* and a requested cancellation is delivered; nothing is assumed of the
\* consumer, which may read, stall for ever, fall behind or stop
NextHubLive ==
  \/ (WarmTrack /\ UNCHANGED extVars)
  \/ (CloseStreamHubs /\ UNCHANGED extVars)
  \/ (ProducerAcquire /\ UNCHANGED extVars)
  \/ (ProducerChunk /\ UNCHANGED extVars)
  \/ (ProducerEof /\ UNCHANGED extVars)
  \/ (ProducerFail /\ UNCHANGED extVars)
  \/ (ProducerCancelled /\ UNCHANGED extVars)
  \/ (StreamFileIdBegin(1) /\ UNCHANGED extVars)
  \/ (HubYield(1) /\ UNCHANGED extVars)
  \/ (HubWait(1) /\ UNCHANGED extVars)
  \/ (HubEof(1) /\ UNCHANGED extVars)
  \/ (HubError(1) /\ UNCHANGED extVars)
  \/ (HubBehind(1) /\ UNCHANGED extVars)
  \/ (HubStop(1) /\ UNCHANGED extVars)

SpecHubLive ==
  /\ Init
  /\ [][NextHubLive]_vars
  /\ WF_vars(ProducerAcquire /\ UNCHANGED extVars)
  /\ WF_vars(ProducerChunk /\ UNCHANGED extVars)
  /\ WF_vars(ProducerEof /\ UNCHANGED extVars)
  /\ WF_vars(ProducerCancelled /\ UNCHANGED extVars)
  /\ WF_vars(FirstPass(1) /\ UNCHANGED extVars)

\* the pool alone, its operations called in any order by any caller
InitPool == PoolInit /\ HubInit /\ PlayInit /\ TrackInit

NextPool ==
  \/ (PoolAcquire /\ UNCHANGED <<hubVars, taskVars, reqVars, histVars, extVars>>)
  \/ (PoolAcquirePrefer /\ UNCHANGED <<hubVars, taskVars, reqVars, histVars, extVars>>)
  \/ (PoolRelease /\ UNCHANGED <<hubVars, taskVars, reqVars, histVars, extVars>>)
  \/ (StopMultiClients /\ UNCHANGED <<hubVars, taskVars, reqVars, histVars, extVars>>)

SpecPool == InitPool /\ [][NextPool]_vars

\* the play-progress table under observe calls with any arguments, as time passes
NextPlay ==
  \/ (Observe /\ UNCHANGED <<poolVars, hubVars, taskVars, reqVars, histVars, closeVars, trackVars>>)
  \/ (Tick /\ UNCHANGED <<poolVars, hubVars, taskVars, reqVars, histVars, closeVars, trackVars>>)

\* a track document with any metadata, some of it missing or zero
InitPlay ==
  /\ HubInit
  /\ MULTI_CLIENTS = TRUE
  /\ primary_user_id = 1
  /\ work_loads = [h \in {1, 2} |-> 0]
  /\ rr_cursor = 0
  /\ pool_call = NoCall
  /\ PlayStart
  /\ track_meta \in [file_size : FileSizes, duration_sec : Durations,
                      bitrate_kbps : Bitrates]
  /\ TrackInit

SpecPlay == InitPlay /\ [][NextPlay]_vars

\* the pool under preference-free acquires and releases only
NextPoolPlain ==
  \/ (PoolAcquire /\ UNCHANGED <<hubVars, taskVars, reqVars, histVars, extVars>>)
  \/ (PoolRelease /\ UNCHANGED <<hubVars, taskVars, reqVars, histVars, extVars>>)

SpecPoolPlain == InitPool /\ [][NextPoolPlain]_vars

\* stream_track requests with their bodies, within one tick: every handle
\* registered (or none), a track of which each byte lasts 30 s, its file_size
\* known, zero or missing, no identifier cached yet
InitTrack ==
  /\ HubInit
  /\ MULTI_CLIENTS = TRUE
  /\ primary_user_id = 1
  /\ work_loads \in {[h \in {} |-> 0], [h \in HandleIds |-> 0]}
  /\ rr_cursor = 0
  /\ pool_call = NoCall
  /\ PlayStart
  /\ track_meta \in [file_size : TrackSizes,
                      duration_sec : {PLAY_COUNT_THRESHOLD_SEC * FileLen},
                      bitrate_kbps : {NoValue}]
  /\ TrackInit

NextTrack ==
  \/ \E r \in TrackRequests :
       (TrackBegin(r) /\ UNCHANGED <<hubVars, taskVars, reqVars, histVars, closeVars>>)
  \/ \E r \in TrackRequests :
       (TrackResolved(r) /\ UNCHANGED <<hubVars, taskVars, reqVars, histVars, closeVars>>)
  \/ \E r \in TrackRequests :
       (TrackResolveFailed(r) /\ UNCHANGED <<hubVars, taskVars, reqVars, histVars, closeVars>>)
  \/ \E r \in TrackRequests :
       (TrackDropUnstarted(r) /\ UNCHANGED <<hubVars, taskVars, reqVars, histVars, closeVars>>)
  \/ \E r \in TrackRequests :
       (TrackStart(r) /\ UNCHANGED <<hubVars, taskVars, reqVars, histVars, closeVars>>)
  \/ \E r \in TrackRequests :
       (TrackUpChunk(r) /\ UNCHANGED <<hubVars, taskVars, reqVars, histVars, closeVars>>)
  \/ \E r \in TrackRequests :
       (TrackUpEof(r) /\ UNCHANGED <<hubVars, taskVars, reqVars, histVars, closeVars>>)
  \/ \E r \in TrackRequests :
       (TrackUpFail(r) /\ UNCHANGED <<hubVars, taskVars, reqVars, histVars, closeVars>>)
  \/ \E r \in TrackRequests :
       (TrackSent(r) /\ UNCHANGED <<hubVars, taskVars, reqVars, histVars, closeVars>>)
  \/ \E r \in TrackRequests :
       (TrackDisconnect(r) /\ UNCHANGED <<hubVars, taskVars, reqVars, histVars, closeVars>>)

SpecTrack == InitTrack /\ [][NextTrack]_vars

\* stream_track alone, from the request to the response it returns (the
\* bodies are not produced), as time passes
NextTrackAnswer ==
  \/ \E r \in TrackRequests :
       (TrackBegin(r) /\ UNCHANGED <<hubVars, taskVars, reqVars, histVars, closeVars>>)
  \/ \E r \in TrackRequests :
       (TrackResolved(r) /\ UNCHANGED <<hubVars, taskVars, reqVars, histVars, closeVars>>)
  \/ \E r \in TrackRequests :
       (TrackResolveFailed(r) /\ UNCHANGED <<hubVars, taskVars, reqVars, histVars, closeVars>>)
  \/ (Tick /\ UNCHANGED <<poolVars, hubVars, taskVars, reqVars, histVars, closeVars, trackVars>>)

SpecTrackAnswer == InitTrack /\ [][NextTrackAnswer]_vars

\* one stream_track request with any byte range, from the request to the
\* end of its body
NextRange ==
  \/ (TrackBeginWith(1, RangeInputs) /\ UNCHANGED <<hubVars, taskVars, reqVars, histVars, closeVars>>)
  \/ (TrackResolved(1) /\ UNCHANGED <<hubVars, taskVars, reqVars, histVars, closeVars>>)
  \/ (TrackResolveFailed(1) /\ UNCHANGED <<hubVars, taskVars, reqVars, histVars, closeVars>>)
  \/ (TrackDropUnstarted(1) /\ UNCHANGED <<hubVars, taskVars, reqVars, histVars, closeVars>>)
  \/ (TrackStart(1) /\ UNCHANGED <<hubVars, taskVars, reqVars, histVars, closeVars>>)
  \/ (TrackUpChunk(1) /\ UNCHANGED <<hubVars, taskVars, reqVars, histVars, closeVars>>)
  \/ (TrackUpEof(1) /\ UNCHANGED <<hubVars, taskVars, reqVars, histVars, closeVars>>)
  \/ (TrackUpFail(1) /\ UNCHANGED <<hubVars, taskVars, reqVars, histVars, closeVars>>)
  \/ (TrackSent(1) /\ UNCHANGED <<hubVars, taskVars, reqVars, histVars, closeVars>>)
  \/ (TrackDisconnect(1) /\ UNCHANGED <<hubVars, taskVars, reqVars, histVars, closeVars>>)

SpecRange == InitTrack /\ [][NextRange]_vars

\* the _register_play tasks alone: created, started in order, their two
\* store writes interleaved in every order, each succeeding or raising
NextRegister ==
  \/ (RegisterPlayCreate /\ UNCHANGED <<poolVars, hubVars, taskVars, reqVars, histVars, closeVars, playVars, trk, TRACK_AFFINITY, file_ids, plays>>)
  \/ \E k \in PlayCalls :
       \/ (RegisterPlayBegin(k) /\ UNCHANGED <<poolVars, hubVars, taskVars, reqVars, histVars, closeVars, playVars, trk, TRACK_AFFINITY, file_ids, plays>>)
       \/ (UserUpsertDone(k) /\ UNCHANGED <<poolVars, hubVars, taskVars, reqVars, histVars, closeVars, playVars, trk, TRACK_AFFINITY, file_ids, plays>>)
       \/ (UserUpsertFail(k) /\ UNCHANGED <<poolVars, hubVars, taskVars, reqVars, histVars, closeVars, playVars, trk, TRACK_AFFINITY, file_ids, plays>>)
       \/ (GlobalIncDone(k) /\ UNCHANGED <<poolVars, hubVars, taskVars, reqVars, histVars, closeVars, playVars, trk, TRACK_AFFINITY, file_ids, plays>>)
       \/ (GlobalIncFail(k) /\ UNCHANGED <<poolVars, hubVars, taskVars, reqVars, histVars, closeVars, playVars, trk, TRACK_AFFINITY, file_ids, plays>>)

SpecRegister == InitTrack /\ [][NextRegister]_vars

\* one ranged request and the _register_play task its wrapper creates, the
\* steps of the task between the chunks of the body
NextPlayTask ==
  \/ NextRange
  \/ \E k \in PlayCalls :
       \/ PlayTaskStep(k, RegisterPlayBegin(k))
       \/ PlayTaskStep(k, UserUpsertDone(k))
       \/ PlayTaskStep(k, UserUpsertFail(k))
       \/ PlayTaskStep(k, GlobalIncDone(k))
       \/ PlayTaskStep(k, GlobalIncFail(k))

SpecPlayTask == InitTrack /\ [][NextPlayTask]_vars

\* the play-progress table under the observe calls of several keys
NextPrune ==
  \/ (ObserveAny /\ UNCHANGED <<poolVars, hubVars, taskVars, reqVars, histVars, closeVars, trackVars>>)
  \/ (Tick /\ UNCHANGED <<poolVars, hubVars, taskVars, reqVars, histVars, closeVars, trackVars>>)

\* a track document without metadata: no entry is ever counted
InitPrune ==
  /\ InitPlay
  /\ track_meta = [file_size |-> NoValue, duration_sec |-> NoValue,
                   bitrate_kbps |-> NoValue]

SpecPrune == InitPrune /\ [][NextPrune]_vars

\* the play-progress table of one key under observe calls that carry any
\* metadata, as time passes
NextPlayMeta ==
  \/ (ObserveWithMeta /\ UNCHANGED <<poolVars, hubVars, taskVars, reqVars, histVars, closeVars, trackVars>>)
  \/ (Tick /\ UNCHANGED <<poolVars, hubVars, taskVars, reqVars, histVars, closeVars, trackVars>>)

SpecPlayMeta == InitPrune /\ [][NextPlayMeta]_vars

\* stream_track up to its response for a track whose document may already
\* hold cached identifiers of any handles, as time passes
InitAffinity ==
  /\ HubInit
  /\ MULTI_CLIENTS = TRUE
  /\ primary_user_id = 1
  /\ work_loads = [h \in HandleIds |-> 0]
  /\ rr_cursor = 0
  /\ pool_call = NoCall
  /\ PlayStart
  /\ track_meta = [file_size |-> FileLen,
                   duration_sec |-> PLAY_COUNT_THRESHOLD_SEC * FileLen,
                   bitrate_kbps |-> NoValue]
  /\ trk = [r \in TrackRequests |-> IdleRequest]
  /\ TRACK_AFFINITY = <<>>
  /\ file_ids \in SUBSET HandleIds
  /\ plays = 0
  /\ RegInit

SpecAffinity == InitAffinity /\ [][NextTrackAnswer]_vars

\* the pool in multi-client mode with the primary and one handle more than
\* HandleIds registered, so that three handles can be tied; acquires with
\* and without preference, releases, and acquire-release round trips
InitPoolRound ==
  /\ HubInit
  /\ MULTI_CLIENTS = TRUE
  /\ primary_user_id = 1
  /\ work_loads = [h \in 1..(NumHandles + 1) |-> 0]
  /\ rr_cursor = 0
  /\ pool_call = NoCall
  /\ PlayInit
  /\ TrackInit

NextPoolRound ==
  \/ (PoolAcquire /\ UNCHANGED <<hubVars, taskVars, reqVars, histVars, extVars>>)
  \/ (PoolAcquirePrefer /\ UNCHANGED <<hubVars, taskVars, reqVars, histVars, extVars>>)
  \/ (PoolRelease /\ UNCHANGED <<hubVars, taskVars, reqVars, histVars, extVars>>)
  \/ (PoolRoundTrip /\ UNCHANGED <<hubVars, taskVars, reqVars, histVars, extVars>>)

SpecPoolRound == InitPoolRound /\ [][NextPoolRound]_vars

\* close_stream_hubs over a registry of several hubs, each with a producer
\* that runs, ends by itself or is cancelled
NextClose ==
  \/ \E k \in HubKeys :
       (RegistryGetOrCreate(k) /\ UNCHANGED <<poolVars, hubVars, taskVars, reqVars, histVars, playVars, trackVars>>)
  \/ \E k \in HubKeys :
       (RegistryProducerExit(k) /\ UNCHANGED <<poolVars, hubVars, taskVars, reqVars, histVars, playVars, trackVars>>)
  \/ \E k \in HubKeys :
       (RegistryProducerCancelled(k) /\ UNCHANGED <<poolVars, hubVars, taskVars, reqVars, histVars, playVars, trackVars>>)
  \/ (CloseBegin /\ UNCHANGED <<poolVars, hubVars, taskVars, reqVars, histVars, playVars, trackVars>>)
  \/ (CloseHub /\ UNCHANGED <<poolVars, hubVars, taskVars, reqVars, histVars, playVars, trackVars>>)
  \/ (CloseResume /\ UNCHANGED <<poolVars, hubVars, taskVars, reqVars, histVars, playVars, trackVars>>)

SpecClose == Init /\ [][NextClose]_vars

\* ================================================================ claims

\* the consumer c has made a step of iter_bytes between the two states
\* (it was attached, and yielded or left), other than being stopped by its caller
IterStep(c) ==
  /\ req_pc[c] \in {"attach", "hub"}
  /\ req_pc'[c] # "stopped"
  /\ (req_pc'[c] # "hub" \/ got'[c] # got[c])

\* C1: whatever the interleaving of appends, evictions and other consumers'
\* reads, what a consumer that attached at start offset s has been yielded by the
\* hub is exactly the producer's byte stream on [s, cursor): every slice starts at
\* the consumer's cursor (no gap, no duplicate, no reordering).  The stream is
\* what was appended to the hub, offset by offset; while one producer task has
\* fed the hub it is the resource itself
C1_YieldedIsStreamFromStart ==
  \A c \in Consumers :
    req_pc[c] # "idle" =>
      /\ c \in DOMAIN consumers => consumers[c] = sent[c]
      /\ req_pc[c] \in {"attach", "hub", "eof", "error"} => Len(got[c]) = sent[c] - req_start[c]
      /\ sent[c] > req_start[c] => sent[c] <= Len(emitted)
      /\ SubSeq(got[c], 1, sent[c] - req_start[c])
           = SubSeq(emitted, req_start[c] + 1, sent[c])
      /\ fetch_starts = 1 =>
           SubSeq(got[c], 1, sent[c] - req_start[c]) = FileBytes(req_start[c], sent[c])

\* a consumer that attached inside the first chunk has read up to the end of the
\* resource in more than one slice while the other consumer also read and the
\* buffer was evicted
C1_Witness ==
  \E c \in Consumers, d \in Consumers :
    /\ c # d
    /\ req_pc[c] = "hub" /\ req_start[c] = 1 /\ sent[c] = FileLen
    /\ got[d] # <<>>
    /\ BufferStart > 0
    /\ fetch_starts = 1

\* C2: iter_bytes ends normally only when the consumer has received every byte
\* of the resource from its start offset up to the resource's real end
C2_NormalEndIsComplete ==
  \A c \in Consumers :
    req_pc[c] = "eof" =>
      /\ Len(got[c]) >= Len(FileBytes(req_start[c], FileLen))
      /\ SubSeq(got[c], 1, Len(FileBytes(req_start[c], FileLen)))
           = FileBytes(req_start[c], FileLen)

\* C3: after BehindWindow the fallback resumes at byte s+k, so what the request
\* yields, hub bytes followed by fallback bytes, is the resource from s on with
\* no gap and no repeat, all of [s, EOF) when the fallback ends
C3_FallbackResumesAtCursor ==
  \A c \in Consumers :
    /\ req_pc[c] = "direct" =>
         got[c] = FileBytes(req_start[c], req_start[c] + Len(got[c]))
    /\ req_pc[c] = "direct_eof" => got[c] = FileBytes(req_start[c], FileLen)

\* C4: the requests for the resource converge on one registered hub whose
\* upstream fetch is started exactly once
C4_OneFetchPerHub ==
  /\ Cardinality(STREAM_HUBS) <= 1
  /\ fetch_starts <= 1
  /\ (STREAM_HUBS # {} => fetch_starts = 1)

\* C5: once the producer task has exited, no producer is launched again,
\* total_written stays as it is, and done is set at most once
C5_ExitIsTerminal ==
  [][task_pc = "exited" =>
       /\ task_pc' = "exited"
       /\ total_written' = total_written
       /\ fetch_starts' = fetch_starts
       /\ done_sets' <= 1]_vars

\* C6 as stated: after every eviction run the retained window is within the cap
C6_RetainedWithinCap ==
  total_written - BufferStart <= MAX_STREAM_BUFFER_BYTES

\* C6 as amended: after every eviction run the retained window exceeds the cap
\* by less than the length of its oldest chunk (eviction drops whole chunks
\* only, those ending at or before totalWritten - maxBufferBytes)
C6_RetainedWithinCapPlusChunk ==
  \/ chunks = <<>>
  \/ total_written - BufferStart < MAX_STREAM_BUFFER_BYTES + Len(chunks[1].data)

\* an eviction run has left more than the cap in the buffer
C6_Witness ==
  /\ total_written - BufferStart > MAX_STREAM_BUFFER_BYTES
  /\ Len(chunks) >= 2

\* C7: an eviction run removes a chunk that ends after the minimum cursor of
\* the registered consumers only when the bytes retained before its forced
\* step exceeded the cap; in a run within the cap no consumer that was at or
\* above bufferStart ends up below it
C7_EvictionRespectsCursors ==
  [][/\ (BufferStart' > BufferStart
           /\ BufferStart' > MinOffset(consumers', total_written'))
          => gc_forced'
     /\ ~gc_forced' =>
          \A c \in DOMAIN consumers' :
            consumers'[c] >= BufferStart => consumers'[c] >= BufferStart']_vars

\* a forced eviction has put a consumer behind the window
C7_Witness ==
  /\ gc_forced
  /\ lagged # {}
  /\ BufferStart > MinOffset(consumers, total_written)

\* C8: the retained chunks are non-empty, contiguous and increasing in offset,
\* the last one ends at total_written; total_written and bufferStart never decrease
C8_ChunksContiguous ==
  /\ [](/\ \A i \in 1..Len(chunks) : Len(chunks[i].data) > 0
        /\ \A i \in 1..(Len(chunks) - 1) : ChunkEnd(chunks[i]) = chunks[i + 1].off
        /\ chunks # <<>> => ChunkEnd(chunks[Len(chunks)]) = total_written
        /\ BufferStart <= total_written)
  /\ [][total_written' >= total_written /\ BufferStart' >= BufferStart]_vars

\* several chunks are retained after an eviction moved the buffer's start
C8_Witness ==
  /\ Len(chunks) >= 2
  /\ BufferStart > 0
  /\ total_written = FileLen

\* C9 as stated: once the hub has an error recorded, every step of iter_bytes
\* by a consumer of the hub raises that error
C9_ErrorReachesEveryConsumer ==
  [][\A c \in Consumers :
       (error # "None" /\ IterStep(c)) => req_pc'[c] = "error"]_vars

\* C9 as amended: once the hub has an error recorded, a step of iter_bytes
\* never yields data and never ends the stream cleanly: it raises that error,
\* or BehindWindow when the consumer is in the lagged set
C9_ErrorOrBehind ==
  [][\A c \in Consumers :
       (error # "None" /\ IterStep(c)) =>
          \/ req_pc'[c] = "error"
          \/ (c \in lagged /\ req_pc'[c] \in {"direct", "fail"})]_vars

\* a consumer that had read part of the stream got the upstream error, and
\* the other request was served without it
C9_Witness ==
  \E c \in Consumers, d \in Consumers :
    /\ error = "UpstreamError"
    /\ req_pc[c] = "error" /\ got[c] # <<>>
    /\ req_pc[d] = "direct"

\* C10: no handle's load is ever negative, whatever the sequence of acquire,
\* acquire-preferring and release calls (releases of handles not held included)
C10_LoadsNonNegative ==
  \A h \in DOMAIN work_loads : work_loads[h] >= 0

\* a release has hit the floor while another handle is held
C10_Witness ==
  /\ pool_call.op = "release" /\ pool_call.path = "floor"
  /\ \E h \in DOMAIN work_loads : work_loads[h] > 0

\* ---------------------------------------------------------------- pool claims

\* the step is a call of the pool operation op that returned a handle
PoolCallStep(op) ==
  /\ pool_call'.op = op
  /\ pool_call'.ok
  /\ (pool_call' # pool_call \/ work_loads' # work_loads)

\* the loads of the handles in S differ by at most 1
BalancedOn(loads, S) == \A h \in S, g \in S : loads[h] - loads[g] <= 1

\* C11 as stated: under preference-free acquires and their releases the loads
\* of any two registered handles never differ by more than 1
C11_LoadsBalanced == BalancedOn(work_loads, DOMAIN work_loads)

\* C11 as amended: a preference-free acquire keeps the loads of the candidate
\* handles within 1 of each other when they were so before it (so acquires
\* alone, from loads of 0, never let two candidates differ by more than 1)
C11_AcquireKeepsBalance ==
  [][(PoolCallStep("acquire") /\ BalancedOn(work_loads, Candidates(work_loads)))
       => BalancedOn(work_loads', Candidates(work_loads))]_vars

\* three candidates, balanced with unequal loads after an acquire
C11_Witness ==
  /\ pool_call.op = "acquire" /\ pool_call.ok
  /\ Cardinality(Candidates(work_loads)) >= 2
  /\ BalancedOn(work_loads, Candidates(work_loads))
  /\ \E h \in Candidates(work_loads), g \in Candidates(work_loads) :
        work_loads[h] = 2 /\ work_loads[g] = 1

\* C13: acquire returns a candidate whose load was minimal among the
\* candidates, adds exactly 1 to that load and changes no other load
C13_AcquireLeastLoaded ==
  [][PoolCallStep("acquire") =>
       LET cid == pool_call'.cid
       IN /\ cid \in Candidates(work_loads)
          /\ \A c \in Candidates(work_loads) : work_loads[cid] <= work_loads[c]
          /\ work_loads' = [work_loads EXCEPT ![cid] = work_loads[cid] + 1]]_vars

\* an acquire chose between candidates of different loads
C13_Witness ==
  /\ pool_call.op = "acquire" /\ pool_call.ok
  /\ \E c \in Candidates(work_loads) :
        c # pool_call.cid /\ work_loads[c] > work_loads[pool_call.cid]
  /\ work_loads[pool_call.cid] >= 2

\* C14 as stated: acquire-preferring returns a preferred handle whenever a
\* preferred handle is registered (the primary in multi-handle mode included),
\* and a handle of the full candidate set only when none is
C14_PreferredWhenRegistered ==
  [][PoolCallStep("prefer") =>
       LET preferred == pool_call'.arg
       IN IF preferred \cap DOMAIN work_loads # {}
          THEN pool_call'.cid \in preferred
          ELSE pool_call'.cid \in Candidates(work_loads)]_vars

\* C14 as amended: acquire-preferring returns a preferred handle whenever a
\* preferred handle is among the candidates (the registered handles, without
\* the primary when multi-handle mode is on and another handle is registered),
\* and a handle of the full candidate set only when none is
C14_PreferredWhenCandidate ==
  [][PoolCallStep("prefer") =>
       LET preferred == pool_call'.arg
       IN IF preferred \cap Candidates(work_loads) # {}
          THEN pool_call'.cid \in preferred
          ELSE pool_call'.cid \in Candidates(work_loads)]_vars

\* a preferred handle was returned although another candidate had a lower load
C14_Witness ==
  /\ pool_call.op = "prefer" /\ pool_call.ok
  /\ pool_call.cid \in pool_call.arg
  /\ \E c \in Candidates(work_loads) \ pool_call.arg :
        work_loads[c] + 1 < work_loads[pool_call.cid]

\* C15: in multi-handle mode with more than one handle registered acquire
\* never returns the primary; with the primary alone it returns the primary
C15_PrimarySetAside ==
  [][PoolCallStep("acquire") =>
       /\ (MULTI_CLIENTS /\ Cardinality(DOMAIN work_loads) > 1)
            => pool_call'.cid # primary_user_id
       /\ DOMAIN work_loads = {primary_user_id}
            => pool_call'.cid = primary_user_id]_vars

\* acquires went to another handle while the primary, registered, stayed idle
C15_Witness ==
  /\ pool_call.op = "acquire" /\ pool_call.ok
  /\ MULTI_CLIENTS
  /\ primary_user_id \in DOMAIN work_loads
  /\ work_loads[primary_user_id] = 0
  /\ pool_call.cid # primary_user_id
  /\ work_loads[pool_call.cid] >= 2

\* ---------------------------------------------------------------- play-progress claims

\* the key's entry in the table (the key has one)
EntryOf(key) == PLAY_PROGRESS[EntryIndex(PLAY_PROGRESS, key)]

HasEntry(key) == EntryIndex(PLAY_PROGRESS, key) # 0

\* the number of bytes in a set of segments
RECURSIVE SegmentBytes(_)
SegmentBytes(segs) ==
  IF segs = {} THEN 0
  ELSE LET g == CHOOSE g \in segs : TRUE
       IN (IF g[1] = g[2] THEN 1 ELSE g[2] - g[1] - 1) + SegmentBytes(segs \ {g})

\* the offset p in segs is joined to the offset after it: that one is in segs
\* too, and either next to p or linked to it by the bytes between them
JoinedToNext(segs, p) ==
  /\ \E q \in Offsets : q > p
  /\ <<NextOffset(p), NextOffset(p)>> \in segs
  /\ (NextOffset(p) = p + 1 \/ <<p, NextOffset(p)>> \in segs)

\* the intervals of a set of segments that start at the offsets in S, in order
RECURSIVE IntervalsFrom(_, _)
IntervalsFrom(segs, S) ==
  IF S = {} THEN <<>>
  ELSE LET a == MinOf(S)
           b == MinOf({y \in Offsets : /\ y >= a
                                       /\ <<y, y>> \in segs
                                       /\ ~JoinedToNext(segs, y)})
       IN <<<<a, b>>>> \o IntervalsFrom(segs, S \ {a})

\* the union of the observed ranges with overlapping and adjacent ones
\* coalesced, as the sorted list of its maximal intervals
CoalescedUnion(segs) ==
  IntervalsFrom(segs,
    {x \in Offsets : /\ <<x, x>> \in segs
                     /\ ~\E p \in Offsets : /\ <<p, p>> \in segs
                                            /\ JoinedToNext(segs, p)
                                            /\ NextOffset(p) = x})

\* the estimate reaches the threshold, by the rule of the claim: coverage *
\* duration / fileSize when both are known, else coverage over the bytes per
\* second of the bit rate, else 0 (a value of 0 counts as not known)
EstimateReaches(covered, meta) ==
  IF meta.file_size > 0 /\ meta.duration_sec > 0
  THEN covered * meta.duration_sec >= PLAY_COUNT_THRESHOLD_SEC * meta.file_size
  ELSE IF meta.bitrate_kbps > 0
  THEN covered * 8 >= PLAY_COUNT_THRESHOLD_SEC * meta.bitrate_kbps * 1000
  ELSE FALSE

\* C16: while a key's entry stays in the table observe returns true at most
\* once: a true return sets counted, and a call on a counted entry returns
\* false and leaves counted true
C16_FiresAtMostOnce ==
  /\ \A k \in PlayKeys :
        /\ fires[k] <= 1
        /\ HasEntry(k) => (EntryOf(k).counted <=> fires[k] = 1)
  /\ play_call.key \in PlayKeys =>
        /\ play_call.hit => (~play_call.was_counted /\ EntryOf(play_call.key).counted)
        /\ play_call.was_counted =>
              (~play_call.hit /\ EntryOf(play_call.key).counted)

\* an observe call on an entry that had been counted at an earlier time
C16_Witness ==
  /\ play_call.key \in PlayKeys
  /\ play_call.was_counted
  /\ ~play_call.hit
  /\ fires[play_call.key] = 1
  /\ now > 0

\* C17: observe returns true exactly when the entry was not counted and the
\* estimate for the bytes covered reaches 30 s; for a file of 10,000,000 bytes
\* lasting 200 s, 1,499,999 bytes covered do not fire and 1,500,000 do
C17_FiresAtThreshold ==
  play_call.key \in PlayKeys =>
    LET covered == SegmentBytes(observed[play_call.key])
    IN /\ play_call.hit <=>
             (~play_call.was_counted /\ EstimateReaches(covered, track_meta))
       /\ (/\ ~play_call.was_counted
            /\ track_meta.file_size = 10000000
            /\ track_meta.duration_sec = 200)
            => /\ covered = 1499999 => ~play_call.hit
               /\ covered = 1500000 => play_call.hit

\* a call fired with the coverage of the 10,000,000-byte, 200 s file at exactly
\* 1,500,000 bytes, the bit rate alone asking for far less
C17_Witness ==
  /\ play_call.key \in PlayKeys
  /\ play_call.hit
  /\ track_meta.file_size = 10000000
  /\ track_meta.duration_sec = 200
  /\ track_meta.bitrate_kbps = 1
  /\ SegmentBytes(observed[play_call.key]) = 1500000

\* C18: the covered list of an entry is the coalesced union of the ranges
\* merged into it, whatever the order they were merged in
C18_MergeIsCoalescedUnion ==
  \A k \in PlayKeys :
    HasEntry(k) =>
      /\ EntryOf(k).ranges = CoalescedUnion(observed[k])
      /\ CoveredBytes(EntryOf(k).ranges) = SegmentBytes(observed[k])

\* two separate intervals, the first of them longer than any single small
\* range next to it: ranges were joined and a later one stayed apart
C18_Witness ==
  \E k \in PlayKeys :
    /\ HasEntry(k)
    /\ ~EntryOf(k).counted
    /\ Len(EntryOf(k).ranges) = 3
    /\ EntryOf(k).ranges[1] = <<0, 1>>

\* ---------------------------------------------------------------- stream_track

\* the request holds a handle it still has to release
InFlight(q) == q.pc \in {"resolve", "ready", "await", "sending"}

\* the request acquired a handle
Acquired(q) == q.client # NoClient

\* the request carries Range: bytes=A- or bytes=A-B that parses, with start A
ValidRangeStart(q) == q.header.unit # "" /\ ParseRangeHeader(q.header)[1] # NoValue

\* the response of the request was built: status and headers are decided
Answered(q) == q.pc \in {"resolve", "ready", "await", "sending", "done", "failed",
                         "disconnected", "dropped"}

\* C12: every handle acquired for a stream_track request is released exactly
\* once on every path (resolution failure, normal end, disconnect in the
\* middle of the body, a response whose body iterator is never started): a
\* request releases at most once, a request that acquired and is no longer
\* in flight has released once, and when no request is in flight (no
\* producer runs in this specification) every load is 0.
C12_ReleasedExactlyOnce ==
  /\ \A r \in TrackRequests :
        /\ trk[r].releases <= 1
        /\ (Acquired(trk[r]) /\ ~InFlight(trk[r])) => trk[r].releases = 1
  /\ (\A r \in TrackRequests : ~InFlight(trk[r]))
        => \A h \in DOMAIN work_loads : work_loads[h] = 0

\* the paths of C12 on which the handle is released once: a request that
\* failed in the resolution, ended, broke off or was disconnected
C12_Witness ==
  /\ trk[1].pc = "disconnected" /\ trk[1].releases = 1
  /\ trk[2].pc = "error" /\ Acquired(trk[2]) /\ trk[2].releases = 1
  /\ \A h \in DOMAIN work_loads : work_loads[h] = 0

\* C19: a request with Range: bytes=A- (A > 0) on a track whose size is
\* unknown is answered with status 200 and no Content-Range, and the first
\* byte of its body is byte A of the resource (byte i has value i).
C19_OpenRangeUnknownSize ==
  \A r \in TrackRequests :
    LET q == trk[r]
    IN (/\ Answered(q)
        /\ ValidRangeStart(q)
        /\ q.header.start > 0
        /\ q.header.end = NoValue
        /\ track_meta.file_size = NoValue)
       => /\ q.status = 200
          /\ q.content_range = <<>>
          /\ q.body # <<>> => q.body[1] = q.header.start

\* the case of C19 with a body under way: status 200, no Content-Range
C19_Witness ==
  \E r \in TrackRequests :
    /\ trk[r].pc = "sending"
    /\ trk[r].header = [unit |-> "bytes", start |-> 1, end |-> NoValue]
    /\ track_meta.file_size = NoValue
    /\ trk[r].status = 200
    /\ trk[r].content_range = <<>>
    /\ trk[r].body # <<>>

\* C20: a request with a valid Range start A for a track of known size,
\* not failed for another reason (service disabled, track not found, no
\* handle or no identifier), is refused with 416 exactly when A >= size and
\* gets status 206 otherwise.
C20_RangeNotSatisfiable ==
  \A r \in TrackRequests :
    LET q == trk[r]
        A == ParseRangeHeader(q.header)[1]
        size == track_meta.file_size
    IN (/\ q.pc \notin {"idle", "error"}
        /\ q.status \notin {503, 404}
        /\ ValidRangeStart(q)
        /\ size # NoValue)
       => /\ q.status = 416 <=> A >= size
          /\ A < size => q.status = 206 /\ Answered(q)
          /\ q.status = 416 => q.pc = "rejected"

\* a start at the size refused with 416 and a start below it answered with
\* a 206 response
C20_Witness ==
  /\ track_meta.file_size = FileLen
  /\ trk[1].status = 416
  /\ trk[1].header.start = FileLen
  /\ trk[2].status = 206
  /\ trk[2].header.start = FileLen - 1
  /\ trk[2].pc = "ready"

\* C21: a 206 response carries Content-Range: bytes A-E/size with A the
\* requested start, A <= E <= size - 1, and Content-Length E - A + 1; the
\* body _stream_range produces from fixed-size upstream chunks is at every
\* moment a prefix of the resource's bytes A..E, and at the normal end it is
\* exactly those bytes, so its length is Content-Length.
C21_PartialContentIsExact ==
  \A r \in TrackRequests :
    LET q == trk[r]
        A == q.content_range[1]
        E == q.content_range[2]
        size == q.content_range[3]
    IN (Answered(q) /\ q.status = 206)
       => /\ Len(q.content_range) = 3
          /\ size = track_meta.file_size
          /\ A = q.header.start
          /\ 0 <= A /\ A <= E /\ E <= size - 1
          /\ q.header.end # NoValue => E = (IF q.header.end < size - 1
                                           THEN q.header.end ELSE size - 1)
          /\ q.header.end = NoValue => E = size - 1
          /\ q.content_length = E - A + 1
          /\ q.body = FileBytes(A, A + Len(q.body))
          /\ Len(q.body) <= q.content_length
          /\ q.pc = "done" => q.body = FileBytes(A, E + 1)
          /\ q.pc = "done" => Len(q.body) = q.content_length

\* a 206 response for bytes 1..1, inside the first upstream chunk, ended
\* normally with that one byte
C21_Witness ==
  /\ trk[1].pc = "done"
  /\ trk[1].status = 206
  /\ trk[1].content_range = <<1, 1, FileLen>>
  /\ trk[1].content_length = 1
  /\ trk[1].body = <<1>>

\* C22: a HEAD request never changes the play-progress table and never
\* fires a play, whatever number of body bytes passes through the wrapper:
\* no step of a HEAD request changes _PLAY_PROGRESS or creates a
\* _register_play task, and the chunks it yields are the iterator's, the
\* bytes of the resource from the start of its body on.
C22_HeadCountsNothing ==
  [][\A r \in TrackRequests :
       (trk'[r] # trk[r] /\ trk'[r].method = "HEAD")
         => /\ PLAY_PROGRESS' = PLAY_PROGRESS
            /\ plays' = plays
            /\ ~trk'[r].triggered
            /\ trk'[r].body = FileBytes(trk'[r].from_bytes,
                                        trk'[r].from_bytes + Len(trk'[r].body))]_vars

\* a HEAD request for a track of known size whose whole body went through
\* the wrapper, the table still empty and no play fired
C22_Witness ==
  /\ trk[1].method = "HEAD"
  /\ trk[1].pc = "done"
  /\ trk[1].body = FileBytes(0, FileLen)
  /\ track_meta.file_size = FileLen
  /\ PLAY_PROGRESS = <<>>
  /\ plays = 0

\* the calls of one identified (listener, resource, time-bucket)
CallsOfKey(key) ==
  {k \in PlayCalls : Identified(play_reg[k].user) /\ PlayKey(play_reg[k]) = key}

C24_RecordingNeverTouchesStream ==
  [][/\ (play_reg' # play_reg /\ plays' = plays) => trk' = trk
     /\ \A r \in TrackRequests :
          LET q == trk'[r]
          IN /\ q.body = FileBytes(q.from_bytes, q.from_bytes + Len(q.body))
             /\ (q.pc = "done" /\ q.status = 206)
                  => q.body = FileBytes(q.content_range[1], q.content_range[2] + 1)]_vars

\* the upsert of the task raised while the body was at two of its three
\* bytes, and the body went on to its normal end with all three
C24_Witness ==
  /\ trk[1].pc = "done"
  /\ trk[1].status = 206
  /\ trk[1].body = FileBytes(0, FileLen)
  /\ trk[1].triggered
  /\ play_reg[1].outcome = "insert_failed"

\* C25: on every exit of iter_bytes (end of stream, behind the window,
\* producer error, the caller stopping or being cancelled) the consumer is
\* removed from the consumer map and from the lagged set, and the eviction is
\* run again: only requests inside iter_bytes are registered or lagged, and
\* no retained chunk lies wholly below the lowest cursor of the consumers
\* that remain, so the cursor of a departed consumer holds nothing back.
C25_ExitDeregistersAndEvicts ==
  /\ \A c \in Consumers :
       req_pc[c] \notin {"attach", "hub"} => c \notin DOMAIN consumers /\ c \notin lagged
  /\ DOMAIN consumers \subseteq Consumers
  /\ lagged \subseteq Consumers
  /\ chunks # <<>> => ChunkEnd(chunks[1]) > MinOffset(consumers, total_written)

\* consumer 1 stopped at cursor 0 while consumer 2 had read two of the three
\* bytes written: the chunk of bytes 0..1, which no forced eviction drops
\* (it ends past total_written minus the cap), is gone
C25_Witness ==
  /\ req_pc[1] = "stopped" /\ sent[1] = 0
  /\ req_pc[2] = "hub" /\ consumers[2] = 2
  /\ total_written = 3
  /\ Len(chunks) = 1 /\ chunks[1].off = 2

\* the producer task is running and the bytes it has yet to receive fit
\* under the bound on the hub's offsets
ProducerRunning ==
  /\ task_pc \in {"new", "stream"}
  /\ total_written + (FileLen - task_pos) <= MaxWritten

\* C26: the producer never waits for a consumer and no consumer cancels it:
\* whatever the consumers do (read, stall, stop, fall behind), a running
\* producer goes on appending what the upstream delivers until it exits,
\* with the whole resource appended unless the upstream failed, the pool had
\* no client or the hub was closed; a step of a consumer leaving the hub
\* changes nothing of the task, and a cancellation is requested only by the
\* close of the hub.
C26_ProducerIndependent ==
  /\ [][/\ (task_cancel' /\ ~task_cancel) => (hubs_closed' /\ ~hubs_closed)
        /\ \A c \in Consumers :
             (req_pc[c] \in {"attach", "hub"} /\ req_pc'[c] \notin {"attach", "hub"})
               => UNCHANGED <<task_pc, task_pos, task_cancel, producer>>]_vars
  /\ ProducerRunning
       ~> (task_pc = "exited"
           /\ (error = "None" /\ ~hubs_closed => task_pos = FileLen))

\* the producer appended the whole resource and exited while consumer 1,
\* registered at 0, read nothing and was put behind the window
C26_Witness ==
  /\ task_pc = "exited" /\ task_pos = FileLen /\ error = "None"
  /\ total_written = FileLen
  /\ req_pc[1] = "hub" /\ consumers[1] = 0 /\ 1 \in lagged
  /\ fetch_starts = 1 /\ ~hubs_closed

\* the entries of the table that are not idle longer than the TTL at time t
FreshEntries(table, t) ==
  {i \in 1..Len(table) : ~(t - table[i].last_seen > PLAY_PROGRESS_TTL)}

\* C27 as stated: after every completed observe call the table holds at
\* most PLAY_PROGRESS_MAX entries and no entry idle longer than the TTL, and
\* the entries dropped for capacity are those of oldest last_seen: every
\* fresh entry that the call dropped was seen no later than every fresh
\* entry it kept.
C27_TableWithinCapacity ==
  [][(now' = now)
       => /\ Len(PLAY_PROGRESS') <= PLAY_PROGRESS_MAX
          /\ \A i \in 1..Len(PLAY_PROGRESS') :
               ~(now - PLAY_PROGRESS'[i].last_seen > PLAY_PROGRESS_TTL)
          /\ \A i, j \in FreshEntries(PLAY_PROGRESS, now) :
               (/\ EntryIndex(PLAY_PROGRESS', PLAY_PROGRESS[i].key) = 0
                /\ EntryIndex(PLAY_PROGRESS', PLAY_PROGRESS[j].key) # 0)
                 => PLAY_PROGRESS[i].last_seen <= PLAY_PROGRESS[j].last_seen]_vars

\* C27, amended: after every completed observe call the table holds at most
\* PLAY_PROGRESS_MAX entries besides the entry of the call's own key (the
\* purge runs before that entry is looked up or added), so at most
\* PLAY_PROGRESS_MAX + 1; no entry is idle longer than the TTL; and every fresh
\* entry that the call dropped was seen no later than every fresh entry it
\* kept.
C27_TableWithinCapacityPlusOwn ==
  [][(now' = now)
       => /\ Len(PLAY_PROGRESS') <= PLAY_PROGRESS_MAX + 1
          /\ EntryIndex(PLAY_PROGRESS', play_call'.key) # 0
          /\ Cardinality({i \in 1..Len(PLAY_PROGRESS') :
                            PLAY_PROGRESS'[i].key # play_call'.key}) <= PLAY_PROGRESS_MAX
          /\ \A i \in 1..Len(PLAY_PROGRESS') :
               ~(now - PLAY_PROGRESS'[i].last_seen > PLAY_PROGRESS_TTL)
          /\ \A i, j \in FreshEntries(PLAY_PROGRESS, now) :
               (/\ EntryIndex(PLAY_PROGRESS', PLAY_PROGRESS[i].key) = 0
                /\ EntryIndex(PLAY_PROGRESS', PLAY_PROGRESS[j].key) # 0)
                 => PLAY_PROGRESS[i].last_seen <= PLAY_PROGRESS[j].last_seen]_vars

\* the call of k3 found the fresh entries of k1, seen a tick ago, and of k2:
\* the older one was dropped and the table holds one entry more than
\* PLAY_PROGRESS_MAX
C27_Witness ==
  /\ Len(PLAY_PROGRESS) = PLAY_PROGRESS_MAX + 1
  /\ play_call.key = "k3"
  /\ PLAY_PROGRESS[Len(PLAY_PROGRESS)].key = "k3"
  /\ EntryIndex(PLAY_PROGRESS, "k2") # 0
  /\ EntryIndex(PLAY_PROGRESS, "k1") = 0
  /\ PLAY_PROGRESS[EntryIndex(PLAY_PROGRESS, "k2")].last_seen = now
  /\ now = 1

\* consumer c is registered with its cursor below the start of the buffer
BelowWindow(c) == c \in DOMAIN consumers /\ consumers[c] < BufferStart

\* C28 as stated: a consumer whose cursor is below the start of the buffer
\* gets _StreamBehindError on its next read attempt, and the hub gives it no
\* data from then on.
C28_BehindGetsBehindWindow ==
  [][\A c \in Consumers :
       BelowWindow(c)
         => /\ IterOutcome(c) = "behind"
            /\ got'[c] = got[c]
            /\ c \in DOMAIN consumers' => BelowWindow(c)']_vars

\* C28, amended: a consumer whose cursor is below the start of the buffer
\* gets on its next read attempt _StreamBehindError, or, when it is not in
\* the lagged set and the producer's error is recorded, that error; the hub
\* gives it no data from then on: it stays below the start of the buffer
\* for as long as it is registered.
C28_BehindGetsNoData ==
  [][\A c \in Consumers :
       BelowWindow(c)
         => /\ IterOutcome(c) \in {"behind", "error"}
            /\ (c \in lagged \/ error = "None") => IterOutcome(c) = "behind"
            /\ got'[c] = got[c]
            /\ c \in DOMAIN consumers' => BelowWindow(c)']_vars

\* consumer 1 stalled at offset 0 and a forced eviction put it behind the
\* window; consumer 2 has just registered at offset 0, is not in the lagged
\* set, and its first pass is about to raise; no error is recorded
C28_Witness ==
  /\ req_pc[1] = "hub" /\ consumers[1] = 0 /\ 1 \in lagged
  /\ req_pc[2] = "attach" /\ consumers[2] = 0 /\ 2 \notin lagged
  /\ BufferStart > 0
  /\ error = "None"
  /\ IterOutcome(1) = "behind"
  /\ IterOutcome(2) = "behind"

\* C29: after every eviction run (the append of the producer, the advance
\* of a consumer's cursor, the exit of a consumer), every registered consumer
\* whose cursor is below the start of the buffer is in the lagged set, and
\* the lagged set holds registered consumers only.
C29_LaggedIsBelowWindow ==
  [][(/\ NoAttachPending'
      /\ (total_written' # total_written \/ consumers' # consumers))
       => /\ \A c \in DOMAIN consumers' :
               consumers'[c] < BufferStart' => c \in lagged'
          /\ lagged' \subseteq DOMAIN consumers']_vars

\* a forced eviction has left consumer 1 below the start of the buffer and
\* in the lagged set, consumer 2 registered inside the window and not in it
C29_Witness ==
  /\ gc_forced
  /\ req_pc[1] = "hub" /\ consumers[1] < BufferStart /\ 1 \in lagged
  /\ req_pc[2] = "hub" /\ consumers[2] >= BufferStart /\ 2 \notin lagged
  /\ fetch_starts = 1

\* the candidates of the acquire call recorded in `call`, made on `loads`
CallCandidates(loads, call) ==
  LET cands == Candidates(loads)
      picked == cands \cap call.arg
  IN IF call.op = "prefer" /\ picked # {} THEN picked ELSE cands

\* the candidates of least load
TiedAtMin(loads, cands) ==
  {c \in cands : \A d \in cands : Load(loads, c) <= Load(loads, d)}

\* the step is an acquire call that returned a handle
AcquireStep ==
  /\ pool_call'.op \in {"acquire", "prefer", "round"}
  /\ pool_call'.ok
  /\ <<work_loads, rr_cursor, pool_call>>' # <<work_loads, rr_cursor, pool_call>>

\* the candidates all have the same load
CandidatesLevel(loads) ==
  \A c, d \in Candidates(loads) : Load(loads, c) = Load(loads, d)

\* M consecutive round trips on a level pool return M different handles
RoundRobinCycle ==
  (/\ pool_call'.op = "round"
   /\ <<rr_cursor, pool_call>>' # <<rr_cursor, pool_call>>
   /\ CandidatesLevel(work_loads))
    => /\ pool_call'.cid \notin RoundPicks(pool_call, Cardinality(Candidates(work_loads)))
       /\ pool_call'.arg \subseteq Candidates(work_loads)
       /\ CandidatesLevel(work_loads')

\* C30 as stated: among the handles tied at least load an acquire picks the
\* one that follows rr_cursor in sorted id order, wrapping around; and when
\* the candidates' loads are equal and each acquire is followed by its
\* release, M consecutive acquires return each of the M candidates once.
C30_FollowsCursor ==
  [][/\ AcquireStep
          => LET tied == TiedAtMin(work_loads, CallCandidates(work_loads, pool_call'))
             IN /\ pool_call'.cid = NextInTied(tied, rr_cursor)
                /\ rr_cursor' = pool_call'.cid
     /\ RoundRobinCycle]_vars

\* C30, amended: among the handles tied at least load an acquire picks the
\* one that follows rr_cursor in sorted id order, wrapping around, when
\* rr_cursor is one of the tied, and the tied handle of lowest id when it
\* is not; the pick becomes rr_cursor; and when the candidates' loads are
\* equal and each acquire is followed by its release, M consecutive acquires
\* return each of the M candidates once.
C30_FollowsCursorAmongTied ==
  [][/\ AcquireStep
          => LET tied == TiedAtMin(work_loads, CallCandidates(work_loads, pool_call'))
             IN /\ rr_cursor \in tied => pool_call'.cid = NextInTied(tied, rr_cursor)
                /\ rr_cursor \notin tied
                     => \A c \in tied : pool_call'.cid <= c
                /\ pool_call'.cid \in tied
                /\ rr_cursor' = pool_call'.cid
     /\ RoundRobinCycle]_vars

\* three round trips on the level pool of handles 2, 3 and 4 returned each
\* of them, after a run that began with the cursor on a loaded handle
C30_Witness ==
  /\ pool_call.op = "round"
  /\ pool_call.arg = {2, 3, 4}
  /\ pool_call.cid = 2
  /\ CandidatesLevel(work_loads)
  /\ work_loads[2] = 1

\* ---------------------------------------------------------------- C31

\* C31: when close_stream_hubs has finished, the registry is empty and the
\* producer of every hub it took from the registry has been cancelled or
\* has ended: none of them is still running, however many were running
C31_CloseStopsEveryProducer ==
  close_call.pc \in {"returned", "raised"} =>
    /\ hubs_registry = <<>>
    /\ \A k \in close_call.took : hub_producer[k].pc # "running"

\* close_stream_hubs has finished after it took several hubs and cancelled
\* the producer of one
C31_Witness ==
  /\ close_call.pc \in {"returned", "raised"}
  /\ Cardinality(close_call.took) >= 2
  /\ \E k \in close_call.took : hub_producer[k].pc = "cancelled"

\* ---------------------------------------------------------------- C32

\* the producer task holds handle h: it acquired it and has not exited
ProducerHolds(h) == IF task_pc = "stream" /\ task_client = h THEN 1 ELSE 0

\* the requests whose fallback holds handle h
FallbackHolds(h) ==
  Cardinality({c \in Consumers : req_pc[c] = "direct" /\ direct_client[c] = h})

\* C32: the producer releases the handle it acquired exactly once on every
\* exit: its exit step lowers the load of that handle by one and no other,
\* an exit without a handle (acquire failed, or cancelled before the first
\* step) changes no load, and so every load is always the number of fetches
\* that hold the handle
C32_ProducerReleasesOnce ==
  /\ [](\A h \in DOMAIN work_loads :
          work_loads[h] = ProducerHolds(h) + FallbackHolds(h))
  /\ [][/\ (task_pc = "stream" /\ task_pc' = "exited") =>
             /\ task_client \in DOMAIN work_loads
             /\ work_loads' = [work_loads EXCEPT ![task_client] = @ - 1]
        /\ (task_pc = "new" /\ task_pc' = "exited") => work_loads' = work_loads
       ]_vars

\* the producer was cancelled by close after it had acquired handle 2 and
\* before the upstream ended, and it has exited with the handle free
C32_Witness ==
  /\ hubs_closed
  /\ task_pc = "exited"
  /\ task_client = 2
  /\ error = "None"
  /\ task_pos < FileLen
  /\ work_loads[2] = 0

\* ---------------------------------------------------------------- C33

\* consumer c is registered and the next pass of its loop would suspend in
\* Condition.wait
Blocked(c) ==
  /\ req_pc[c] = "hub"
  /\ c \in DOMAIN consumers
  /\ IterOutcome(c) = "wait"

\* C33: no consumer stays blocked for ever.  Only the producer wakes the
\* waiters (on an append, on an error, on its exit), so once the producer
\* task has terminated no registered consumer is left waiting: each of them
\* finds data, the end of the stream, BehindWindow or the producer's error
C33_NoneBlockedAfterProducerExit ==
  task_pc = "exited" => \A c \in Consumers : ~Blocked(c)

\* the producer has ended by itself while a consumer is registered, and the
\* consumer's next pass returns the end of the stream
C33_Witness ==
  /\ task_pc = "exited"
  /\ ~hubs_closed
  /\ req_pc[1] = "hub"
  /\ IterOutcome(1) = "eof"

\* ---------------------------------------------------------------- C34

\* the key's entry in a table that has one
EntryIn(table, key) == table[EntryIndex(table, key)]

\* the step is an observe call for key k that left the entry it found
\* counted as it was, but for last_seen and the metadata of the call
CountedEntryKept(k) ==
  LET e == EntryIn(PLAY_PROGRESS, k)
      m == play_call'.meta
  IN /\ EntryIndex(PLAY_PROGRESS', k) # 0
     /\ ~play_call'.hit
     /\ EntryIn(PLAY_PROGRESS', k) =
          [e EXCEPT !.last_seen = now,
                    !.file_size = IF m.file_size # NoValue THEN m.file_size ELSE @,
                    !.duration_sec = IF m.duration_sec # NoValue THEN m.duration_sec ELSE @,
                    !.bitrate_kbps = IF m.bitrate_kbps # NoValue THEN m.bitrate_kbps ELSE @]

\* C34 as stated: once counted is true for a key, every further observe call
\* leaves ranges and counted unchanged and returns false; only last_seen and
\* the metadata change
C34_CountedEntryFrozen ==
  [][\A k \in PlayKeys :
       (/\ now' = now
        /\ EntryIndex(PLAY_PROGRESS, k) # 0
        /\ EntryIn(PLAY_PROGRESS, k).counted) => CountedEntryKept(k)]_vars

\* C34 amended: the same of every observe call whose purge leaves the
\* counted entry in the table
C34_CountedEntryFrozenWhileKept ==
  [][\A k \in PlayKeys :
       (/\ now' = now
        /\ EntryIndex(PLAY_PROGRESS, k) # 0
        /\ EntryIn(PLAY_PROGRESS, k).counted
        /\ EntryIndex(PrunePlayProgress(PLAY_PROGRESS, now), k) # 0)
       => CountedEntryKept(k)]_vars

\* an observe call found the entry counted, on 3750 bytes at 1 kbit/s, and
\* gave it a size and a duration under which 3750 bytes are less than 30 s
C34_Witness ==
  /\ play_call.key = "k1"
  /\ play_call.was_counted
  /\ ~play_call.hit
  /\ play_call.meta.file_size = 20000000
  /\ EntryIndex(PLAY_PROGRESS, "k1") # 0
  /\ EntryIn(PLAY_PROGRESS, "k1").counted
  /\ EntryIn(PLAY_PROGRESS, "k1").file_size = 20000000
  /\ EntryIn(PLAY_PROGRESS, "k1").duration_sec = 200
  /\ CoveredBytes(EntryIn(PLAY_PROGRESS, "k1").ranges) = 3750

\* ---------------------------------------------------------------- C35

\* the step takes request r from its start past the affinity lookup
LookupStep(r) == trk[r].pc = "idle" /\ trk'[r].pc \in {"error", "resolve", "ready"}

\* the step is one in which request r acquires a handle
AcquireStepOf(r) == trk[r].pc = "idle" /\ trk'[r].pc \in {"resolve", "ready"}

\* the affinity entry is within the window
AffinityFresh == TRACK_AFFINITY # <<>> /\ now - TRACK_AFFINITY[2] <= TRACK_AFFINITY_TTL_SEC

\* an entry older than the window is ignored and removed: the acquire is the
\* one of a request without an entry, and the old entry is gone
ExpiredIgnored(r) ==
  (TRACK_AFFINITY # <<>> /\ ~AffinityFresh) =>
    /\ TRACK_AFFINITY' # TRACK_AFFINITY
    /\ trk'[r].client = AcquireForTrack(work_loads, rr_cursor, file_ids, NoClient).cid

\* C35 as stated: a request acquires the handle of a fresh affinity entry
\* that is still registered; an expired entry is ignored and removed; the
\* entry names only a handle on which a request succeeded (or, at the
\* least, has not failed yet)
C35_AffinityFollowsLastUse ==
  /\ [](TRACK_AFFINITY # <<>> =>
          \E r \in TrackRequests :
            trk[r].pc \in {"resolve", "ready"} /\ trk[r].client = TRACK_AFFINITY[1])
  /\ [][\A r \in TrackRequests :
          /\ (AcquireStepOf(r) /\ AffinityFresh
                /\ TRACK_AFFINITY[1] \in DOMAIN work_loads)
               => trk'[r].client = TRACK_AFFINITY[1]
          /\ AcquireStepOf(r) => ExpiredIgnored(r)]_vars

\* C35 amended: a request acquires the handle of a fresh affinity entry when
\* the handle has a cached identifier for the track and is among the pool's
\* candidates; an expired entry is ignored and removed; the entry is
\* written by every acquire, for the handle acquired and before the
\* identifier is resolved, and by nothing else
C35_AffinityFollowsCachedHandle ==
  [][/\ \A r \in TrackRequests :
          /\ (AcquireStepOf(r) /\ AffinityFresh
                /\ TRACK_AFFINITY[1] \in file_ids
                /\ TRACK_AFFINITY[1] \in Candidates(work_loads))
               => trk'[r].client = TRACK_AFFINITY[1]
          /\ AcquireStepOf(r) => ExpiredIgnored(r)
          /\ AcquireStepOf(r) => TRACK_AFFINITY' = <<trk'[r].client, now>>
     /\ (\A r \in TrackRequests : ~LookupStep(r)) => TRACK_AFFINITY' = TRACK_AFFINITY
    ]_vars

\* the second request acquired handle 2 again, by the fresh entry of the
\* first, although handle 3 has a cached identifier too and is less loaded
C35_Witness ==
  /\ file_ids = {2, 3}
  /\ trk[1].pc = "ready" /\ trk[1].client = 2
  /\ trk[2].pc = "ready" /\ trk[2].client = 2
  /\ work_loads[2] = 2
  /\ work_loads[3] = 0
  /\ TRACK_AFFINITY[1] = 2

\* ---------------------------------------------------------------- C36

\* the step is an observe call for key k that finds the key's entry
ObserveOnEntry(k) ==
  /\ now' = now
  /\ PLAY_PROGRESS' # PLAY_PROGRESS \/ play_call' # play_call
  /\ play_call'.key = k
  /\ EntryIndex(PrunePlayProgress(PLAY_PROGRESS, now), k) # 0

\* the call fired by the estimate that the entry's metadata gives after the call
FiredByStoredMeta(k) ==
  LET e == EntryIn(PLAY_PROGRESS', k)
  IN play_call'.hit <=>
       /\ ~play_call'.was_counted
       /\ ReachesThreshold(SecondsFromBytes(CoveredBytes(e.ranges), e.file_size,
                                            e.duration_sec, e.bitrate_kbps))

\* C36 as stated: for one key the metadata that arrived first stays: a
\* field of the entry that holds a value keeps it under every later observe
C36_FirstMetadataStays ==
  [][\A k \in PlayKeys :
       ObserveOnEntry(k) =>
         LET e == EntryIn(PLAY_PROGRESS, k)
             f == EntryIn(PLAY_PROGRESS', k)
         IN /\ e.file_size # NoValue => f.file_size = e.file_size
            /\ e.duration_sec # NoValue => f.duration_sec = e.duration_sec
            /\ e.bitrate_kbps # NoValue => f.bitrate_kbps = e.bitrate_kbps]_vars

\* C36 amended: a field of the entry keeps its value under an observe that
\* carries none for it and takes the value of an observe that carries one,
\* and the call's estimate is made with the fields as they then are
C36_LastMetadataStored ==
  [][\A k \in PlayKeys :
       ObserveOnEntry(k) =>
         LET e == EntryIn(PLAY_PROGRESS, k)
             f == EntryIn(PLAY_PROGRESS', k)
             m == play_call'.meta
         IN /\ f.file_size = (IF m.file_size # NoValue THEN m.file_size ELSE e.file_size)
            /\ f.duration_sec =
                 (IF m.duration_sec # NoValue THEN m.duration_sec ELSE e.duration_sec)
            /\ f.bitrate_kbps =
                 (IF m.bitrate_kbps # NoValue THEN m.bitrate_kbps ELSE e.bitrate_kbps)
            /\ FiredByStoredMeta(k)]_vars

\* the entry was counted on 1,500,000 bytes, which are 30 s of a file of
\* 10,000,000 bytes lasting 200 s and no bit rate was ever given, and a
\* later observe has stored the size 20,000,000
C36_Witness ==
  /\ EntryIndex(PLAY_PROGRESS, "k1") # 0
  /\ EntryIn(PLAY_PROGRESS, "k1").counted
  /\ CoveredBytes(EntryIn(PLAY_PROGRESS, "k1").ranges) = 1500000
  /\ EntryIn(PLAY_PROGRESS, "k1").bitrate_kbps = NoValue
  /\ EntryIn(PLAY_PROGRESS, "k1").file_size = 20000000

\* ---------------------------------------------------------------- C37

\* consumer c has just registered on a hub that had no consumer, below
\* what the hub has fetched
AttachedBelowTotal(c) ==
  /\ req_pc[c] = "attach"
  /\ DOMAIN consumers = {c}
  /\ consumers[c] < total_written

\* the hub retains nothing while no consumer is registered
NoConsumerNoChunk == DOMAIN consumers = {} => (chunks = <<>> /\ BufferStart = total_written)

\* C37 as stated: without a registered consumer the hub retains no chunk,
\* and a consumer that attaches to such a hub below total_written gets
\* BehindWindow on its first read
C37_UnattendedHubKeepsNothing ==
  /\ NoConsumerNoChunk
  /\ \A c \in Consumers : AttachedBelowTotal(c) => IterOutcome(c) = "behind"

\* C37 amended: the same, but the first read raises the producer's error
\* when one is recorded
C37_UnattendedHubKeepsNothingOrError ==
  /\ NoConsumerNoChunk
  /\ \A c \in Consumers :
       AttachedBelowTotal(c) =>
         /\ chunks = <<>>
         /\ IterOutcome(c) = (IF error # "None" THEN "error" ELSE "behind")

\* a consumer has registered at offset 0 on a hub that had fetched bytes
\* with no consumer and without an error, and its first read is BehindWindow
C37_Witness ==
  /\ AttachedBelowTotal(1)
  /\ consumers[1] = 0
  /\ error = "None"
  /\ ~done
  /\ IterOutcome(1) = "behind"

\* ---------------------------------------------------------------- C38

\* C38: a request rejected before streaming with 404 or 416 acquires no
\* handle and leaves every load, the round-robin cursor and the affinity
\* table as they were
C38_RejectionTouchesNothing ==
  [][\A r \in TrackRequests :
       (/\ trk[r].pc = "idle"
        /\ trk'[r].pc = "rejected"
        /\ trk'[r].status \in {404, 416})
       => /\ work_loads' = work_loads
          /\ rr_cursor' = rr_cursor
          /\ TRACK_AFFINITY' = TRACK_AFFINITY
          /\ trk'[r].client = NoClient
          /\ trk'[r].releases = 0]_vars

\* the second request was rejected with 416 at a time when the entry that
\* the first one wrote is older than the window and the first still holds
\* its handle: the entry and the load are still there
C38_Witness ==
  /\ trk[1].pc = "ready"
  /\ trk[2].pc = "rejected"
  /\ trk[2].status = 416
  /\ TRACK_AFFINITY # <<>>
  /\ now - TRACK_AFFINITY[2] > TRACK_AFFINITY_TTL_SEC
  /\ work_loads[trk[1].client] = 1

\* ---------------------------------------------------------------- C39

\* C39: the response streams of several requests share the key and
\* interleave their observe calls; over all of them at most one call
\* returns true while the key's entry stays in the table, so that at most
\* one stream is triggered and at most one play is fired
C39_OnePlayPerSharedKey ==
  /\ fires["k1"] <= 1
  /\ plays = fires["k1"]
  /\ Cardinality({r \in TrackRequests : trk[r].triggered}) <= 1
  /\ (\E r \in TrackRequests : trk[r].triggered) => plays = 1

\* two GET streams run at the same time and both have made an observe
\* call: the call of the first fired, the call of the second did not
C39_Witness ==
  /\ trk[1].pc \in {"await", "sending"}
  /\ trk[2].pc \in {"await", "sending"}
  /\ trk[1].triggered
  /\ trk[2].method = "GET"
  /\ ~trk[2].triggered
  /\ trk[2].last_flush > trk[2].from_bytes
  /\ plays = 1

\* ---------------------------------------------------------------- C40

\* the request's stream has ended
StreamEnded(q) == q.pc \in {"done", "failed", "disconnected"}

\* the wrapper of the request counts and has made no call since a call of
\* its loop returned true
NotTriggered(q) == q.method # "HEAD" /\ ~q.triggered

\* C40: the ranges the wrapper of a non-HEAD stream reports to observe are
\* consecutive and non-overlapping, the first starts at the response's first
\* byte offset, none is empty, and they cover only bytes already yielded;
\* when a stream that was not triggered has ended, they cover exactly
\* [from, cursor - 1], the bytes the wrapper's cursor accounts for
C40_ReportedRangesConsecutive ==
  \A r \in TrackRequests :
    LET q == trk[r]
        ranges == q.reported
        n == Len(ranges)
    IN /\ q.method = "HEAD" => n = 0
       /\ n > 0 => ranges[1][1] = q.from_bytes
       /\ \A i \in 1..n : ranges[i][1] <= ranges[i][2]
       /\ \A i \in 1..(n - 1) : ranges[i + 1][1] = ranges[i][2] + 1
       /\ n > 0 => /\ ranges[n][2] <= q.cursor - 1
                   /\ ranges[n][2] <= q.from_bytes + Len(q.body) - 1
       /\ q.cursor <= q.from_bytes + Len(q.body)
       /\ (StreamEnded(q) /\ NotTriggered(q)) =>
            IF q.cursor > q.from_bytes
            THEN n > 0 /\ ranges[n][2] = q.cursor - 1
            ELSE n = 0

\* a stream that never fired has ended by a disconnect after reporting one
\* range, with a last chunk yielded that the cursor does not account for
C40_Witness ==
  /\ trk[1].pc = "disconnected"
  /\ ~trk[1].triggered
  /\ trk[1].from_bytes = 0
  /\ trk[1].reported = <<<<0, 1>>>>
  /\ trk[1].cursor = 2
  /\ Len(trk[1].body) = 3

====
